---- MODULE Spec2Model ----
(***************************************************************************)
(* A model of flytekit's type engine (flytekit/core/type_engine.py): the   *)
(* transformer registry of TypeEngine, its five-tier get_transformer       *)
(* lookup with lazy registration, the conversion entry points, the union   *)
(* and dataclass transformers, _are_types_castable and the caching         *)
(* LiteralsResolver.                                                       *)
(***************************************************************************)
EXTENDS Integers, Sequences, FiniteSets, TLC

VARIABLES
    registry,      \* TypeEngine._REGISTRY: insertion-ordered dict, as a sequence of [type, tr]
    restricted,    \* TypeEngine._RESTRICTED_TYPES: list of native types
    created,       \* per native type, the transformer instances get_transformer constructed for it
    last,          \* the last call made and what it returned or raised
    thr,           \* per thread, how far its get_transformer call has come
    res            \* the LiteralsResolver object

vars == <<registry, restricted, created, last, thr, res>>

(***************************************************************************)
(* Bounds of the model.                                                    *)
(***************************************************************************)
\* transformer instances get_transformer constructs lazily for one native type
MaxInstances == 2
\* length of _RESTRICTED_TYPES (register_restricted_type appends on every call)
MaxRestricted == 4
\* entries of the dict handed to dict_to_literal_map
MaxEntries == 2

\* F applied to x, with x evaluated once
Once(x, F(_)) == CHOOSE r \in { F(v) : v \in {x} } : TRUE
(***************************************************************************)
(* Native (python) types.  Strings name the type objects.                  *)
(*   Ann_int = Annotated[int, 'a']      Ann_Custom = Annotated[Custom,'a'] *)
(*   List_int = typing.List[int]        Set_int = typing.Set[int]          *)
(*   Tuple_int = typing.Tuple[int, str] MyTuple = class MyTuple(tuple)     *)
(*   Base, Mixin = plain classes        Multi = class Multi(Base, Mixin)   *)
(*   Custom = plain class                                                  *)
(*   DC = @dataclass class DC(Base) with fields a: Custom, b: int          *)
(*   DCSet = @dataclass class DCSet with fields a: Custom, b: Set[int]     *)
(*   Point = @dataclass class Point with field x: int                      *)
(*   PointD = @dataclass class PointD with fields x: int, y: int = 0       *)
(*   U_int_str = typing.Union[int, str]    Opt_int = typing.Optional[int]  *)
(*   U_int_Custom = typing.Union[int, Custom]                              *)
(*   U_int_AnnInt = typing.Union[int, Annotated[int, 'a']]                 *)
(*   U_int_tuple_Custom = typing.Union[int, tuple, Custom]                 *)
(*   U_int_Set = typing.Union[int, typing.Set[int]]                        *)
(*   U_int_Point = typing.Union[int, Point]                                *)
(*   U_Point_PointD = typing.Union[Point, PointD]                          *)
(*   Color = class Color(enum.Enum) with RED = "red", GREEN = "green"      *)
(*   IntColor = class IntColor(enum.Enum) with RED = 1, GREEN = 2          *)
(*   U_Custom_IntColor = typing.Union[Custom, IntColor]                    *)
(*   U_Color_IntColor = typing.Union[Color, IntColor]                      *)
(***************************************************************************)
NoType == "<no type>"

\* get_origin(t) is Annotated
IsAnnotated(t) == t \in {"Ann_int", "Ann_Custom"}

\* get_args(t)[0] of an Annotated type
AnnotatedArg(t) ==
    CASE t = "Ann_int" -> "int"
      [] t = "Ann_Custom" -> "Custom"
      [] OTHER -> t

\* the native type get_transformer looks up once an outer Annotated is stripped
StripAnnotated(q) == IF IsAnnotated(q) THEN AnnotatedArg(q) ELSE q

\* get_args(t) of a typing.Union
UnionArgs(t) ==
    CASE t = "U_int_str" -> <<"int", "str">>
      [] t = "Opt_int" -> <<"int", "NoneType">>
      [] t = "U_int_Custom" -> <<"int", "Custom">>
      [] t = "U_int_AnnInt" -> <<"int", "Ann_int">>
      [] t = "U_int_tuple_Custom" -> <<"int", "tuple", "Custom">>
      [] t = "U_int_Set" -> <<"int", "Set_int">>
      [] t = "U_int_Point" -> <<"int", "Point">>
      [] t = "U_Point_PointD" -> <<"Point", "PointD">>
      [] t = "U_Custom_IntColor" -> <<"Custom", "IntColor">>
      [] t = "U_Color_IntColor" -> <<"Color", "IntColor">>
      [] OTHER -> <<>>

\* get_origin(t) is typing.Union
IsUnionType(t) == UnionArgs(t) # <<>>

\* hasattr(t, "__origin__") for a type that is not Annotated
HasOrigin(t) == t \in {"List_int", "Set_int", "Tuple_int"} \/ IsUnionType(t)

\* t.__origin__
Origin(t) ==
    CASE t = "List_int" -> "list"
      [] t = "Set_int" -> "set"
      [] t = "Tuple_int" -> "tuple"
      [] IsUnionType(t) -> "Union"
      [] OTHER -> NoType

\* dataclasses.is_dataclass(t)
IsDataclass(t) == t \in {"DC", "DCSet", "Point", "PointD"}

\* [field.type for field in dataclasses.fields(t)], in declaration order
DataclassFieldTypes(t) ==
    CASE t = "DC" -> <<"Custom", "int">>
      [] t = "DCSet" -> <<"Custom", "Set_int">>
      [] t = "Point" -> <<"int">>
      [] t = "PointD" -> <<"int", "int">>
      [] OTHER -> <<>>

\* [field.name for field in dataclasses.fields(t)], in declaration order
DataclassFieldNames(t) ==
    CASE t \in {"DC", "DCSet"} -> <<"a", "b">>
      [] t = "Point" -> <<"x">>
      [] t = "PointD" -> <<"x", "y">>
      [] OTHER -> <<>>

\* the names of the fields of t that are declared with a default
DataclassDefaulted(t) == IF t = "PointD" THEN {"y"} ELSE {}

\* isinstance(t, base) or (inspect.isclass(t) and issubclass(t, base)); a base for
\* which isinstance raises TypeError (typing.Tuple, NamedTuple) matches nothing
IsInstanceOrSubclass(t, base) ==
    /\ base \notin {"Tuple", "NamedTuple"}
    /\ \/ t = base
       \/ <<t, base>> \in { <<"DC", "Base">>, <<"Multi", "Base">>, <<"Multi", "Mixin">>,
                            <<"MyTuple", "tuple">>, <<"bool", "int">>,
                            <<"Color", "Enum">>, <<"IntColor", "Enum">> }

\* type(v).__class__ == enum.EnumMeta for a value v of type t
IsEnum(t) == t \in {"Color", "IntColor"}

\* the values of the members of the enum class t are strings
HasStringValues(t) == t = "Color"

\* [v.value for v in t] of a string-valued enum class
EnumValues(t) == IF t = "Color" THEN <<"red", "green">> ELSE <<>>

(***************************************************************************)
(* Transformers.  A record stands for one transformer object:              *)
(*   kind  the class, name and t the constructor's name and python type,   *)
(*   lt    the simple wire kind of a SimpleTransformer,                    *)
(*   inst  tells apart the instances get_transformer constructs for one    *)
(*         type: the n-th has inst = n (0 for the module-level and the     *)
(*         caller's own objects),                                          *)
(*   subs  DataclassTransformer._transformers in field order.              *)
(***************************************************************************)
Transformer(kind, name, t, lt, inst, subs) ==
    [kind |-> kind, name |-> name, t |-> t, lt |-> lt, inst |-> inst, subs |-> subs]

NoTransformer == Transformer("<none>", "", NoType, "", 0, <<>>)

SimpleTransformer(name, t, lt) == Transformer("simple", name, t, lt, 0, <<>>)

RestrictedTypeTransformer(name, t) == Transformer("restricted", name, t, "", 0, <<>>)

\* f"Dataclass[{dataclass_type.__name__}]"
DataclassName(t) ==
    CASE t = "DC" -> "Dataclass[DC]"
      [] t = "DCSet" -> "Dataclass[DCSet]"
      [] t = "Point" -> "Dataclass[Point]"
      [] t = "PointD" -> "Dataclass[PointD]"
      [] OTHER -> "Dataclass[?]"

DataclassTransformer(t, inst, subs) ==
    Transformer("dataclass", DataclassName(t), t, "", inst, subs)

\* f"Pickled[{pickled_type.__name__}]"
PickledName(t) ==
    CASE t = "Custom" -> "Pickled[Custom]"
      [] t = "Multi" -> "Pickled[Multi]"
      [] OTHER -> "Pickled[?]"

FlytePickleTransformer(t, inst) == Transformer("pickle", PickledName(t), t, "", inst, <<>>)

\* transformer objects a caller of the registration API holds: two for the same type
UserTransformers ==
    { SimpleTransformer("BaseT", "Base", "STRING"),
      SimpleTransformer("BaseT2", "Base", "STRING") }

\* the transformer a caller registers further types for
AliasTransformers == { SimpleTransformer("BaseT2", "Base", "STRING") }

(***************************************************************************)
(* The registry dict.                                                      *)
(***************************************************************************)
Keys(reg) == { reg[i].type : i \in 1..Len(reg) }

\* t in cls._REGISTRY
InRegistry(reg, t) == \E i \in 1..Len(reg) : reg[i].type = t

\* cls._REGISTRY[t]
Lookup(reg, t) ==
    IF InRegistry(reg, t)
    THEN reg[CHOOSE i \in 1..Len(reg) : reg[i].type = t].tr
    ELSE NoTransformer

\* cls._REGISTRY[t] = tr: a new key goes last, an existing key keeps its place
SetItem(reg, t, tr) ==
    IF InRegistry(reg, t)
    THEN [i \in 1..Len(reg) |-> IF reg[i].type = t THEN [type |-> t, tr |-> tr] ELSE reg[i]]
    ELSE Append(reg, [type |-> t, tr |-> tr])

(***************************************************************************)
(* TypeEngine.register: the loop over [transformer.python_type,            *)
(* *additional_types]; raises ValueError at the first type already         *)
(* registered, after the earlier types of the call were inserted.          *)
(***************************************************************************)
\* Faulty variant: no duplicate check, a registered type is silently overridden.
RECURSIVE RegisterLoopNoCheck(_, _, _)
RegisterLoopNoCheck(reg, tr, types) ==
    IF types = <<>>
    THEN [reg |-> reg, err |-> "none"]
    ELSE RegisterLoopNoCheck(SetItem(reg, Head(types), tr), tr, Tail(types))

\* Faulty variant: the type found registered is deleted before the error is raised.
RECURSIVE RegisterLoopDropsExisting(_, _, _)
RegisterLoopDropsExisting(reg, tr, types) ==
    IF types = <<>>
    THEN [reg |-> reg, err |-> "none"]
    ELSE IF InRegistry(reg, Head(types))
         THEN [reg |-> SelectSeq(reg, LAMBDA e : e.type # Head(types)), err |-> "ValueError"]
         ELSE RegisterLoopDropsExisting(SetItem(reg, Head(types), tr), tr, Tail(types))

\* Faulty variant: all the types are checked before the first is inserted.
RECURSIVE RegisterLoopAllOrNothing(_, _, _)
RegisterLoopAllOrNothing(reg, tr, types) ==
    IF types = <<>>
    THEN [reg |-> reg, err |-> "none"]
    ELSE IF \E i \in 1..Len(types) : InRegistry(reg, types[i])
         THEN [reg |-> reg, err |-> "ValueError"]
         ELSE RegisterLoopAllOrNothing(SetItem(reg, Head(types), tr), tr, Tail(types))
RECURSIVE RegisterLoop(_, _, _)
RegisterLoop(reg, tr, types) ==
    IF types = <<>>
    THEN [reg |-> reg, err |-> "none"]
    ELSE IF InRegistry(reg, Head(types))
         THEN [reg |-> reg, err |-> "ValueError"]
         ELSE RegisterLoop(SetItem(reg, Head(types), tr), tr, Tail(types))

RegisterCall(reg, tr, additional_types) ==
    RegisterLoop(reg, tr, <<tr.t>> \o additional_types)

\* Faulty variant: the override flag is ignored, the entry is always replaced.
RegisterAdditionalCallAlways(reg, tr, additional_type, override) ==
    SetItem(reg, additional_type, tr)

\* TypeEngine.register_additional_type
\* Faulty variant: the override flag is read the wrong way round.
RegisterAdditionalCallUnlessOverride(reg, tr, additional_type, override) ==
    IF InRegistry(reg, additional_type) /\ override
    THEN reg
    ELSE SetItem(reg, additional_type, tr)
RegisterAdditionalCall(reg, tr, additional_type, override) ==
    IF ~InRegistry(reg, additional_type) \/ override
    THEN SetItem(reg, additional_type, tr)
    ELSE reg

(***************************************************************************)
(* _register_default_type_transformers: the registry and the restricted    *)
(* list as the module leaves them at import.                               *)
(***************************************************************************)
RECURSIVE RegisterAll(_, _)
RegisterAll(reg, calls) ==
    IF calls = <<>>
    THEN reg
    ELSE RegisterAll(RegisterCall(reg, Head(calls).tr, Head(calls).more).reg, Tail(calls))

DefaultRegistrations ==
    << [tr |-> SimpleTransformer("int", "int", "INTEGER"), more |-> <<>>],
       [tr |-> SimpleTransformer("float", "float", "FLOAT"), more |-> <<>>],
       [tr |-> SimpleTransformer("bool", "bool", "BOOLEAN"), more |-> <<>>],
       [tr |-> SimpleTransformer("str", "str", "STRING"), more |-> <<>>],
       [tr |-> SimpleTransformer("datetime", "datetime", "DATETIME"), more |-> <<>>],
       [tr |-> SimpleTransformer("timedelta", "timedelta", "DURATION"), more |-> <<>>],
       [tr |-> SimpleTransformer("none", "NoneType", "NONE"), more |-> <<"None">>],
       [tr |-> Transformer("list", "Typed List", "list", "", 0, <<>>), more |-> <<>>],
       [tr |-> Transformer("union", "Typed Union", "Union", "", 0, <<>>), more |-> <<>>],
       [tr |-> Transformer("dict", "Typed Dict", "dict", "", 0, <<>>), more |-> <<>>],
       [tr |-> Transformer("textio", "TextIO", "TextIO", "", 0, <<>>), more |-> <<>>],
       [tr |-> Transformer("binaryio", "BinaryIO", "BinaryIO", "", 0, <<>>), more |-> <<>>],
       [tr |-> Transformer("enum", "DefaultEnumTransformer", "Enum", "", 0, <<>>), more |-> <<>>],
       [tr |-> Transformer("protobuf", "Protobuf-Transformer", "Message", "", 0, <<>>), more |-> <<>>],
       [tr |-> RestrictedTypeTransformer("non typed tuple", "tuple"), more |-> <<>>],
       [tr |-> RestrictedTypeTransformer("non typed tuple", "Tuple"), more |-> <<>>],
       [tr |-> RestrictedTypeTransformer("named tuple", "NamedTuple"), more |-> <<>>] >>

DefaultRegistry == RegisterAll(<<>>, DefaultRegistrations)

DefaultRestrictedTypes == <<"tuple", "Tuple", "NamedTuple">>

(***************************************************************************)
(* TypeEngine.get_transformer.  The result record holds the registry and   *)
(* the instance count after the call, the transformer returned (or the     *)
(* exception raised) and the step of the code that returned.               *)
(***************************************************************************)
\* Step 4: the first key, in insertion order, the type is an instance or subclass of
RECURSIVE ScanBases(_, _, _)
ScanBases(reg, t, i) ==
    IF i > Len(reg)
    THEN 0
    ELSE IF reg[i].type # "None" /\ IsInstanceOrSubclass(t, reg[i].type)
         THEN i
         ELSE ScanBases(reg, t, i + 1)

RECURSIVE GetTransformer(_, _, _)
RECURSIVE FieldTransformers(_, _, _, _)

\* DataclassTransformer.__init__: get_transformer of every field type, in order
FieldTransformers(reg, n, types, acc) ==
    IF types = <<>>
    THEN [reg |-> reg, n |-> n, err |-> "none", subs |-> acc]
    ELSE LET r == GetTransformer(reg, n, Head(types))
         IN IF r.err # "none"
            THEN [reg |-> r.reg, n |-> r.n, err |-> r.err, subs |-> acc]
            ELSE FieldTransformers(r.reg, r.n, Tail(types), Append(acc, r.tr))

\* Step 5: cls._REGISTRY[python_type] = FlytePickleTransformer(python_type), and read it back
RegisterPickle(reg, n, t) ==
    LET reg2 == SetItem(reg, t, FlytePickleTransformer(t, n[t] + 1))
    IN [reg |-> reg2, n |-> [n EXCEPT ![t] = @ + 1], err |-> "none",
        tr |-> Lookup(reg2, t), step |-> 5]

\* Faulty variant: a type registered by the fallback is pickled anew at each lookup.
ExactMatchRepickles(reg, n, t) ==
    IF Lookup(reg, t).kind = "pickle" /\ t \in DOMAIN n
    THEN RegisterPickle(reg, n, t)
    ELSE [reg |-> reg, n |-> n, err |-> "none", tr |-> Lookup(reg, t), step |-> 1]

\* Step 1: return cls._REGISTRY[python_type]
ExactMatch(reg, n, t) ==
    [reg |-> reg, n |-> n, err |-> "none", tr |-> Lookup(reg, t), step |-> 1]

\* Faulty variant: an unregistered origin falls through to a pickle transformer.
GenericMatchFallsBack(reg, n, t) ==
    IF InRegistry(reg, Origin(t))
    THEN [reg |-> reg, n |-> n, err |-> "none", tr |-> Lookup(reg, Origin(t)), step |-> 2]
    ELSE [reg |-> reg, n |-> n, err |-> "none", tr |-> FlytePickleTransformer(t, 1), step |-> 5]

\* Step 2: the transformer of the generic origin, or ValueError
GenericMatch(reg, n, t) ==
    IF InRegistry(reg, Origin(t))
    THEN [reg |-> reg, n |-> n, err |-> "none", tr |-> Lookup(reg, Origin(t)), step |-> 2]
    ELSE [reg |-> reg, n |-> n, err |-> "ValueError", tr |-> NoTransformer, step |-> 2]

\* Step 3: cls._REGISTRY[python_type] = DataclassTransformer(python_type), and read it back
RegisterDataclass(reg, n, t) ==
    LET f == FieldTransformers(reg, n, DataclassFieldTypes(t), <<>>)
    IN IF f.err # "none"
       THEN [reg |-> f.reg, n |-> f.n, err |-> f.err, tr |-> NoTransformer, step |-> 3]
       ELSE LET reg2 == SetItem(f.reg, t, DataclassTransformer(t, f.n[t] + 1, f.subs))
            IN [reg |-> reg2, n |-> [f.n EXCEPT ![t] = @ + 1], err |-> "none",
                tr |-> Lookup(reg2, t), step |-> 3]

\* Step 4: return cls._REGISTRY[base_type]
InheritanceMatch(reg, n, t) ==
    [reg |-> reg, n |-> n, err |-> "none", tr |-> reg[ScanBases(reg, t, 1)].tr, step |-> 4]

\* Faulty variant: the inheritance scan (step 4) runs before the dataclass check (step 3).
GetTransformerInheritanceFirst(reg, n, python_type) ==
    LET t == IF IsAnnotated(python_type) THEN AnnotatedArg(python_type) ELSE python_type
    IN  IF InRegistry(reg, t) THEN ExactMatch(reg, n, t)
        ELSE IF HasOrigin(t) THEN GenericMatch(reg, n, t)
        ELSE IF ScanBases(reg, t, 1) # 0 THEN InheritanceMatch(reg, n, t)
        ELSE IF IsDataclass(t) THEN RegisterDataclass(reg, n, t)
        ELSE RegisterPickle(reg, n, t)

GetTransformer(reg, n, python_type) ==
    LET t == IF IsAnnotated(python_type) THEN AnnotatedArg(python_type) ELSE python_type
    IN  IF InRegistry(reg, t) THEN ExactMatch(reg, n, t)
        ELSE IF HasOrigin(t) THEN GenericMatch(reg, n, t)
        ELSE IF IsDataclass(t) THEN RegisterDataclass(reg, n, t)
        ELSE IF ScanBases(reg, t, 1) # 0 THEN InheritanceMatch(reg, n, t)
        ELSE RegisterPickle(reg, n, t)

(***************************************************************************)
(* Native values, wire types (LiteralType) and wire values (Literal).      *)
(***************************************************************************)
\* a python value: its runtime type and a payload (None is the NoneType value)
Value(ty, v) == [ty |-> ty, v |-> v]

NoValue == Value(NoType, 0)

NoneValue == Value("NoneType", 0)

\* an instance of the dataclass t: fields maps each attribute's name to its value
DataclassValue(t, fields) == [ty |-> t, v |-> 0, fields |-> fields]

\* the value a defaulted field of a dataclass gets when the constructor is not given it
DataclassDefault(t, name) == Value("int", 0)

\* literal_type.structure is None
NoTag == ""

\* LiteralType(simple=...), LiteralType(blob=BlobType(format, SINGLE)),
\* LiteralType(union_type=UnionType(variants)); tag is structure.tag, NoTag when
\* structure is None
\* the further fields: sub holds collection_type or map_value_type, values the
\* enum_type's values, schema_type, schema_bytes and columns (with format) the
\* structured_dataset_type, metadata the names of the fields a record type's
\* metadata describes (<<>> when metadata is None)
LiteralType(k, simple, format, variants, tag) ==
    [k |-> k, simple |-> simple, format |-> format, variants |-> variants, tag |-> tag,
     sub |-> <<>>, values |-> <<>>, schema_type |-> "", schema_bytes |-> "",
     columns |-> <<>>, metadata |-> <<>>]

SimpleLiteralType(simple) == LiteralType("simple", simple, "", <<>>, NoTag)

BlobLiteralType(format) == LiteralType("blob", "", format, <<>>, NoTag)

UnionLiteralType(variants) == LiteralType("union", "", "", variants, NoTag)

NoLiteralType == LiteralType("<none>", "", "", <<>>, NoTag)

\* LiteralType(collection_type=sub_type)
CollectionLiteralType(sub_type) ==
    [LiteralType("collection", "", "", <<>>, NoTag) EXCEPT !.sub = <<sub_type>>]

\* LiteralType(map_value_type=sub_type)
MapLiteralType(sub_type) ==
    [LiteralType("map", "", "", <<>>, NoTag) EXCEPT !.sub = <<sub_type>>]

\* LiteralType(enum_type=EnumType(values))
EnumLiteralType(values) ==
    [LiteralType("enum", "", "", <<>>, NoTag) EXCEPT !.values = values]

\* StructuredDatasetType.DatasetColumn(name, literal_type)
DatasetColumn(name, literal_type) == [name |-> name, literal_type |-> literal_type]

\* LiteralType(structured_dataset_type=StructuredDatasetType(columns, format,
\* external_schema_type, external_schema_bytes))
StructuredDatasetLiteralType(columns, format, schema_type, schema_bytes) ==
    [LiteralType("sds", "", format, <<>>, NoTag) EXCEPT
        !.columns = columns, !.schema_type = schema_type, !.schema_bytes = schema_bytes]

\* tag_from_type(t): the import path of the class
TagFromType(t) == t

\* _add_tag_to_type(x, tag)
AddTagToType(x, tag) == [x EXCEPT !.tag = tag]

\* _type_essence(x): x without metadata and structure
TypeEssence(x) == [x EXCEPT !.tag = NoTag, !.metadata = <<>>]

(***************************************************************************)
(* _are_types_castable(upstream, downstream), rule by rule in the order    *)
(* of the code.                                                            *)
(***************************************************************************)
RECURSIVE AreTypesCastable(_, _)

\* Faulty variant: two collection types are castable whatever their element types.
CollectionRuleShallow(upstream, downstream) == downstream.k = "collection"
\* upstream.collection_type is not None
CollectionRule(upstream, downstream) ==
    IF downstream.k # "collection"
    THEN FALSE
    ELSE AreTypesCastable(upstream.sub[1], downstream.sub[1])

\* upstream.map_value_type is not None
MapRule(upstream, downstream) ==
    IF downstream.k # "map"
    THEN FALSE
    ELSE AreTypesCastable(upstream.sub[1], downstream.sub[1])

\* Faulty variant: the columns' names are not compared.
DatasetRuleUnnamed(upstream, downstream) ==
    IF downstream.k # "sds" THEN FALSE
    ELSE IF upstream.format # downstream.format THEN FALSE
    ELSE IF upstream.schema_type # downstream.schema_type THEN FALSE
    ELSE IF upstream.schema_bytes # downstream.schema_bytes THEN FALSE
    ELSE IF Len(upstream.columns) # Len(downstream.columns) THEN FALSE
    ELSE \A i \in 1..Len(upstream.columns) :
            AreTypesCastable(upstream.columns[i].literal_type,
                             downstream.columns[i].literal_type)
\* upstream.structured_dataset_type is not None
DatasetRule(upstream, downstream) ==
    IF downstream.k # "sds" THEN FALSE
    ELSE IF upstream.format # downstream.format THEN FALSE
    ELSE IF upstream.schema_type # downstream.schema_type THEN FALSE
    ELSE IF upstream.schema_bytes # downstream.schema_bytes THEN FALSE
    ELSE IF Len(upstream.columns) # Len(downstream.columns) THEN FALSE
    ELSE \A i \in 1..Len(upstream.columns) :
            /\ upstream.columns[i].name = downstream.columns[i].name
            /\ AreTypesCastable(upstream.columns[i].literal_type,
                                downstream.columns[i].literal_type)

\* Faulty variant: one castable upstream variant is enough.
UpstreamUnionAnyVariant(upstream, downstream) ==
    \E i \in 1..Len(upstream.variants) : AreTypesCastable(upstream.variants[i], downstream)
\* upstream.union_type is not None
UpstreamUnionRule(upstream, downstream) ==
    \A i \in 1..Len(upstream.variants) : AreTypesCastable(upstream.variants[i], downstream)

\* Faulty variant: a downstream union is not looked into.
RemainingRulesNoUnion(upstream, downstream) ==
    \/ upstream.k = "enum" /\ downstream.k = "simple" /\ downstream.simple = "STRING"
    \/ TypeEssence(upstream) = TypeEssence(downstream)
\* the last three tests: a downstream union with a variant that accepts, an enum
\* into STRING, equal essence
RemainingRules(upstream, downstream) ==
    \/ /\ downstream.k = "union"
       /\ \E i \in 1..Len(downstream.variants) :
             AreTypesCastable(upstream, downstream.variants[i])
    \/ upstream.k = "enum" /\ downstream.k = "simple" /\ downstream.simple = "STRING"
    \/ TypeEssence(upstream) = TypeEssence(downstream)

AreTypesCastable(upstream, downstream) ==
    IF upstream.k = "collection" THEN CollectionRule(upstream, downstream)
    ELSE IF upstream.k = "map" THEN MapRule(upstream, downstream)
    ELSE IF upstream.k = "sds" THEN DatasetRule(upstream, downstream)
    ELSE IF upstream.k = "union" THEN UpstreamUnionRule(upstream, downstream)
    ELSE RemainingRules(upstream, downstream)

PYTHON_PICKLE_FORMAT == "PythonPickle"

\* Literal(scalar=Scalar(primitive=Primitive(<field>=v))), Literal(scalar=Scalar(none_type=Void())),
\* Literal(scalar=Scalar(blob=Blob(metadata, uri))): the blob stands for the stored bytes,
\* ty and v being the pickled value's type and payload and value the value itself
\* the further fields: value and stored_type of Scalar(union=Union(value, stored_type)),
\* literals of Literal(map=LiteralMap(literals))
Literal(k, field, ty, v) ==
    [k |-> k, field |-> field, ty |-> ty, v |-> v,
     value |-> <<>>, stored_type |-> NoLiteralType, literals |-> <<>>]

PrimitiveLiteral(field, v) == Literal("primitive", field, "", v)

VoidLiteral == Literal("none", "", "", 0)

BlobLiteral(format, val) == [Literal("blob", format, val.ty, val.v) EXCEPT !.value = <<val>>]

NoLiteral == Literal("<none>", "", "", 0)

\* Literal(scalar=Scalar(union=Union(value=res, stored_type=res_type)))
UnionLiteral(value, stored_type) ==
    [Literal("union", "", "", 0) EXCEPT !.value = <<value>>, !.stored_type = stored_type]

\* Literal(map=LiteralMap(literals=literals)), literals a function of the keys
MapLiteral(literals) == [Literal("map", "", "", 0) EXCEPT !.literals = literals]

\* the Primitive field the lambdas of a SimpleTransformer write and read
PrimitiveField(lt) ==
    CASE lt = "INTEGER" -> "integer"
      [] lt = "FLOAT" -> "float_value"
      [] lt = "BOOLEAN" -> "boolean"
      [] lt = "STRING" -> "string_value"
      [] lt = "DATETIME" -> "datetime"
      [] lt = "DURATION" -> "duration"
      [] OTHER -> "none_type"

(***************************************************************************)
(* The transformers' methods, for the transformer classes the types of the *)
(* model dispatch to: SimpleTransformer, RestrictedTypeTransformer and     *)
(* FlytePickleTransformer.  A result holds err ("none" or the exception)   *)
(* and the value returned.                                                 *)
(***************************************************************************)
RECURSIVE GetLiteralType(_, _), AssertType(_, _, _)
RECURSIVE TransformerToLiteral(_, _, _, _), TransformerToPythonValue(_, _, _)

\* the exception a loop leaves with: the first of errs that is not "none"
FirstRaised(errs) ==
    IF \A i \in 1..Len(errs) : errs[i] = "none"
    THEN "none"
    ELSE errs[CHOOSE i \in 1..Len(errs) :
                 errs[i] # "none" /\ \A j \in 1..(i - 1) : errs[j] = "none"]

\* the position of the field called name
FieldIndex(t, name) == CHOOSE i \in 1..Len(DataclassFieldNames(t)) : DataclassFieldNames(t)[i] = name

\* hasattr(val, name)
HasField(val, name) == IsDataclass(val.ty) /\ name \in DOMAIN val.fields

\* DataclassTransformer.get_literal_type: a map of LiteralType() whose metadata
\* describes the fields and whose structure holds the tag of t
DataclassGetLiteralType(tr, t) ==
    LET names == DataclassFieldNames(tr.t)
        types == DataclassFieldTypes(tr.t)
        e == FirstRaised([i \in 1..Len(tr.subs) |-> GetLiteralType(tr.subs[i], types[i]).err])
    IN IF e # "none"
       THEN [err |-> e, out |-> NoLiteralType]
       ELSE [err |-> "none",
             out |-> [MapLiteralType(NoLiteralType) EXCEPT
                         !.metadata = names, !.tag = TagFromType(t)]]

\* DataclassTransformer.assert_type
DataclassAssertType(tr, t, val) ==
    LET names == DataclassFieldNames(tr.t)
        types == DataclassFieldTypes(tr.t)
    IN IF ~IsDataclass(val.ty)
       THEN "TypeTransformerFailedError"
       ELSE FirstRaised([i \in 1..Len(tr.subs) |->
                IF ~HasField(val, names[i]) THEN "AttributeError"
                ELSE AssertType(tr.subs[i], types[i], val.fields[names[i]])])

\* DataclassTransformer.to_literal: expected.metadata names the fields' wire types
DataclassToLiteral(tr, val, t, expected) ==
    LET names == DataclassFieldNames(tr.t)
        types == DataclassFieldTypes(tr.t)
        sub(i) == TransformerToLiteral(tr.subs[i], val.fields[names[i]], types[i], NoLiteralType)
        e == FirstRaised([i \in 1..Len(tr.subs) |->
                IF ~HasField(val, names[i]) THEN "AttributeError"
                ELSE IF \A j \in 1..Len(expected.metadata) : expected.metadata[j] # names[i]
                THEN "KeyError"
                ELSE sub(i).err])
    IN IF expected.metadata = <<>>
       THEN [err |-> "AttributeError", out |-> NoLiteral]
       ELSE IF e # "none"
       THEN [err |-> e, out |-> NoLiteral]
       ELSE [err |-> "none",
             out |-> MapLiteral([name \in { names[i] : i \in 1..Len(names) } |->
                                    sub(FieldIndex(tr.t, name)).out])]

\* Faulty variant: a field the map lacks fails the decoding, default or not.
DataclassToPythonValueAllFields(tr, lv, t) ==
    LET names == DataclassFieldNames(tr.t)
        types == DataclassFieldTypes(tr.t)
        sub(i) == TransformerToPythonValue(tr.subs[i], lv.literals[names[i]], types[i])
    IN IF lv.k # "map"
       THEN [err |-> "AttributeError", out |-> NoValue]
       ELSE IF \E i \in 1..Len(names) : names[i] \notin DOMAIN lv.literals
       THEN [err |-> "TypeError", out |-> NoValue]
       ELSE LET e == FirstRaised([i \in 1..Len(tr.subs) |-> sub(i).err])
            IN IF e # "none"
               THEN [err |-> e, out |-> NoValue]
               ELSE [err |-> "none",
                     out |-> DataclassValue(t, [name \in { names[i] : i \in 1..Len(names) } |->
                                                   sub(FieldIndex(tr.t, name)).out])]

\* DataclassTransformer.to_python_value: the fields the map holds are decoded, then
\* expected_python_type(**fields) is called; the constructor raises TypeError for a
\* missing field that has no default
DataclassToPythonValue(tr, lv, t) ==
    LET names == DataclassFieldNames(tr.t)
        types == DataclassFieldTypes(tr.t)
        sub(i) == TransformerToPythonValue(tr.subs[i], lv.literals[names[i]], types[i])
        e == FirstRaised([i \in 1..Len(tr.subs) |->
                IF names[i] \in DOMAIN lv.literals THEN sub(i).err ELSE "none"])
        given == { names[i] : i \in 1..Len(names) } \cap DOMAIN lv.literals
        accepted == { DataclassFieldNames(t)[i] : i \in 1..Len(DataclassFieldNames(t)) }
    IN IF lv.k # "map"
       THEN [err |-> "AttributeError", out |-> NoValue]
       ELSE IF e # "none"
       THEN [err |-> e, out |-> NoValue]
       ELSE IF ~(given \subseteq accepted /\ accepted \subseteq given \cup DataclassDefaulted(t))
       THEN [err |-> "TypeError", out |-> NoValue]
       ELSE [err |-> "none",
             out |-> DataclassValue(t, [name \in accepted |->
                        IF name \in given
                        THEN sub(FieldIndex(tr.t, name)).out
                        ELSE DataclassDefault(t, name)])]

\* EnumTransformer.get_literal_type(t) for an enum class t that is not Annotated
EnumGetLiteralType(t) ==
    IF ~HasStringValues(t)
    THEN [err |-> "TypeTransformerFailedError", out |-> NoLiteralType]
    ELSE [err |-> "none", out |-> EnumLiteralType(EnumValues(t))]

\* EnumTransformer.to_literal: the value's own class is looked at, python_type is not
EnumToLiteral(val) ==
    IF ~IsEnum(val.ty) \/ ~HasStringValues(val.ty)
    THEN [err |-> "TypeTransformerFailedError", out |-> NoLiteral]
    ELSE [err |-> "none", out |-> PrimitiveLiteral("string_value", val.v)]

\* EnumTransformer.to_python_value: expected_python_type(lv.scalar.primitive.string_value);
\* v numbers the member whose value the string is
EnumToPythonValue(lv, t) ==
    IF lv.k # "primitive"
    THEN [err |-> "AttributeError", out |-> NoValue]
    ELSE IF HasStringValues(t) /\ lv.field = "string_value" /\ lv.v \in 1..Len(EnumValues(t))
    THEN [err |-> "none", out |-> Value(t, lv.v)]
    ELSE [err |-> "ValueError", out |-> NoValue]
\* Faulty variant: the restricted transformer answers with a wire type.
GetLiteralTypeRestrictedAnswers(tr, t) ==
    CASE tr.kind = "simple" -> [err |-> "none", out |-> SimpleLiteralType(tr.lt)]
      [] tr.kind = "pickle" -> [err |-> "none", out |-> BlobLiteralType(PYTHON_PICKLE_FORMAT)]
      [] OTHER -> [err |-> "none", out |-> SimpleLiteralType("STRUCT")]

\* transformer.get_literal_type(t)
GetLiteralType(tr, t) ==
    CASE tr.kind = "simple" -> [err |-> "none", out |-> SimpleLiteralType(tr.lt)]
      [] tr.kind = "restricted" -> [err |-> "RestrictedTypeError", out |-> NoLiteralType]
      [] tr.kind = "pickle" -> [err |-> "none", out |-> BlobLiteralType(PYTHON_PICKLE_FORMAT)]
      [] tr.kind = "dataclass" -> DataclassGetLiteralType(tr, t)
      [] tr.kind = "enum" /\ IsEnum(t) -> EnumGetLiteralType(t)
      [] OTHER -> [err |-> "<not modelled>", out |-> NoLiteralType]

\* hasattr(t, "__origin__"), Annotated types and bare typing.Tuple included
HasOriginAttr(t) == IsAnnotated(t) \/ HasOrigin(t) \/ t = "Tuple"

\* transformer.assert_type(t, v): TypeTransformer.assert_type, which
\* FlytePickleTransformer overrides with a no-op and DataclassTransformer with its
\* own; isinstance raises TypeError when its second argument is no class
\* (NamedTuple, None)
AssertType(tr, t, val) ==
    IF tr.kind = "dataclass"
    THEN DataclassAssertType(tr, t, val)
    ELSE IF tr.kind = "pickle" \/ HasOriginAttr(t)
    THEN "none"
    ELSE IF t \in {"NamedTuple", "None"}
         THEN "TypeError"
         ELSE IF IsInstanceOrSubclass(val.ty, t)
              THEN "none"
              ELSE "TypeTransformerFailedError"

\* transformer.to_literal(ctx, python_val, python_type, expected)
TransformerToLiteral(tr, val, t, expected) ==
    CASE tr.kind = "simple" ->
            IF val.ty # tr.t
            THEN [err |-> "TypeTransformerFailedError", out |-> NoLiteral]
            ELSE [err |-> "none",
                  out |-> IF tr.lt = "NONE" THEN VoidLiteral
                          ELSE PrimitiveLiteral(PrimitiveField(tr.lt), val.v)]
      [] tr.kind = "restricted" -> [err |-> "RestrictedTypeError", out |-> NoLiteral]
      [] tr.kind = "pickle" -> [err |-> "none", out |-> BlobLiteral(PYTHON_PICKLE_FORMAT, val)]
      [] tr.kind = "dataclass" -> DataclassToLiteral(tr, val, t, expected)
      [] tr.kind = "enum" -> EnumToLiteral(val)
      [] OTHER -> [err |-> "<not modelled>", out |-> NoLiteral]

\* Faulty variant: every transformer reads the integer field of the primitive.
SimpleFromLiteralReadsInteger(tr, lv) ==
    IF lv.k = "primitive" /\ lv.field = "integer"
    THEN [err |-> "none", out |-> Value(tr.t, lv.v)]
    ELSE [err |-> "TypeTransformerFailedError", out |-> NoValue]
\* self._from_literal_transformer(lv) of a SimpleTransformer and the checks around
\* it: an AttributeError (a property of lv that is None) and a result of another
\* type both become TypeTransformerFailedError
SimpleFromLiteral(tr, lv) ==
    LET fails == [err |-> "TypeTransformerFailedError", out |-> NoValue]
    IN  IF tr.lt = "NONE"
        THEN IF lv.k = "none" THEN [err |-> "none", out |-> NoneValue] ELSE fails
        ELSE IF lv.k # "primitive" THEN fails
        ELSE IF lv.field = PrimitiveField(tr.lt)
             \/ (tr.lt = "FLOAT" /\ lv.field = "integer")
        THEN [err |-> "none", out |-> Value(tr.t, lv.v)]
        ELSE fails

\* transformer.to_python_value(ctx, lv, expected_python_type)
TransformerToPythonValue(tr, lv, t) ==
    CASE tr.kind = "simple" ->
            IF (IF IsAnnotated(t) THEN AnnotatedArg(t) ELSE t) # tr.t
            THEN [err |-> "TypeTransformerFailedError", out |-> NoValue]
            ELSE SimpleFromLiteral(tr, lv)
      [] tr.kind = "restricted" -> [err |-> "RestrictedTypeError", out |-> NoValue]
      [] tr.kind = "pickle" ->
            IF lv.k = "blob"
            THEN [err |-> "none", out |-> lv.value[1]]
            ELSE [err |-> "AttributeError", out |-> NoValue]
      [] tr.kind = "dataclass" -> DataclassToPythonValue(tr, lv, t)
      [] tr.kind = "enum" -> EnumToPythonValue(lv, t)
      [] OTHER -> [err |-> "<not modelled>", out |-> NoValue]

(***************************************************************************)
(* UnionTransformer.  The loops over get_args(python_type) thread the      *)
(* registry, which a variant's get_transformer can extend.  A result holds *)
(* the registry and instance counts, err, the value returned, the names of *)
(* the transformers whose conversion was called (tried) and, for the       *)
(* TypeError of the union itself, whether it is the ambiguity.             *)
(***************************************************************************)
RECURSIVE ToLiteralType(_, _, _)

UnionResult(reg, n, err, out, tried, ambiguous) ==
    [reg |-> reg, n |-> n, err |-> err, out |-> out, tried |-> tried, ambiguous |-> ambiguous]

\* UnionTransformer.get_literal_type: the variants' wire types, each tagged with its
\* transformer's name; every exception becomes ValueError
RECURSIVE UnionVariantTypes(_, _, _, _)
UnionVariantTypes(reg, n, types, acc) ==
    IF types = <<>>
    THEN UnionResult(reg, n, "none", UnionLiteralType(acc), <<>>, FALSE)
    ELSE LET r == ToLiteralType(reg, n, Head(types))
         IN IF r.err # "none"
            THEN UnionResult(r.reg, r.n, "ValueError", NoLiteralType, <<>>, FALSE)
            ELSE UnionVariantTypes(r.reg, r.n, Tail(types),
                                   Append(acc, AddTagToType(r.out, r.tr.name)))

UnionGetLiteralType(reg, n, t) == UnionVariantTypes(reg, n, UnionArgs(StripAnnotated(t)), <<>>)

\* the exceptions the loop of UnionTransformer.to_literal catches
CaughtEncoding ==
    {"TypeTransformerFailedError", "AttributeError", "ValueError", "AssertionError"}

\* the outcome of one round of the loop of UnionTransformer.to_literal for the
\* variant type t: the registry after get_transformer, the transformer's name, the
\* exception ("none" when the variant encodes) and the locals res and res_type
\* after the round, found holding them before it
EncodeVariant(reg, n, val, t, expected, found) ==
    LET g == GetTransformer(reg, n, t)
        r == TransformerToLiteral(g.tr, val, t, expected)
        lt == GetLiteralType(g.tr, t)
        e == IF g.err # "none" THEN g.err ELSE IF r.err # "none" THEN r.err ELSE lt.err
    IN [reg |-> g.reg, n |-> g.n, name |-> g.tr.name, err |-> e,
        found |-> [res |-> IF g.err = "none" /\ r.err = "none" THEN r.out ELSE found.res,
                   res_type |-> IF e = "none" THEN AddTagToType(lt.out, g.tr.name)
                                ELSE found.res_type]]

\* the locals res and res_type of UnionTransformer.to_literal before the loop
NothingFound == [res |-> NoLiteral, res_type |-> NoLiteralType]

\* Faulty variant: the first variant that encodes wins, a second one is not looked for.
RECURSIVE UnionToLiteralFirstWins(_, _, _, _, _, _, _, _)
UnionToLiteralFirstWins(reg, n, val, types, expected, found_res, found, tried) ==
    IF found_res
    THEN UnionResult(reg, n, "none", UnionLiteral(found.res, found.res_type), tried, FALSE)
    ELSE IF types = <<>>
    THEN UnionResult(reg, n, "TypeTransformerFailedError", NoLiteral, tried, FALSE)
    ELSE Once(EncodeVariant(reg, n, val, Head(types), expected, found), LAMBDA s :
            IF s.err \in CaughtEncoding
            THEN UnionToLiteralFirstWins(s.reg, s.n, val, Tail(types), expected, FALSE,
                                         s.found, tried)
            ELSE IF s.err # "none"
            THEN UnionResult(s.reg, s.n, s.err, NoLiteral, tried, FALSE)
            ELSE UnionToLiteralFirstWins(s.reg, s.n, val, Tail(types), expected, TRUE,
                                         s.found, Append(tried, s.name)))

\* UnionTransformer.to_literal, the loop from its variant types on
RECURSIVE UnionToLiteralLoop(_, _, _, _, _, _, _, _)
UnionToLiteralLoop(reg, n, val, types, expected, found_res, found, tried) ==
    IF types = <<>>
    THEN IF found_res
         THEN UnionResult(reg, n, "none", UnionLiteral(found.res, found.res_type), tried, FALSE)
         ELSE UnionResult(reg, n, "TypeTransformerFailedError", NoLiteral, tried, FALSE)
    ELSE Once(EncodeVariant(reg, n, val, Head(types), expected, found), LAMBDA s :
            IF s.err \in CaughtEncoding
            THEN UnionToLiteralLoop(s.reg, s.n, val, Tail(types), expected, found_res,
                                    s.found, tried)
            ELSE IF s.err # "none"
            THEN UnionResult(s.reg, s.n, s.err, NoLiteral, tried, FALSE)
            ELSE IF found_res
            THEN UnionResult(s.reg, s.n, "TypeError", NoLiteral, Append(tried, s.name), TRUE)
            ELSE UnionToLiteralLoop(s.reg, s.n, val, Tail(types), expected, TRUE,
                                    s.found, Append(tried, s.name)))

UnionToLiteral(reg, n, val, python_type, expected) ==
    UnionToLiteralLoop(reg, n, val, UnionArgs(StripAnnotated(python_type)), expected,
                       FALSE, NothingFound, <<>>)

\* the exceptions the loop of UnionTransformer.to_python_value catches
CaughtDecoding == {"TypeTransformerFailedError", "AttributeError"}

\* Faulty variant: the tag of the literal is not read.
UnionTagNotRead(lv) == NoTag
\* union_tag: lv.scalar.union.stored_type.structure.tag, NoTag when lv is no union
\* literal or its stored type has no structure
UnionTag(lv) == IF lv.k = "union" THEN lv.stored_type.tag ELSE NoTag

\* Faulty variant: neither the tag nor the castability test passes a variant over.
DecodeVariantUnscreened(reg, n, lv, v) ==
    LET g == GetTransformer(reg, n, v)
        r == TransformerToPythonValue(g.tr, IF UnionTag(lv) # NoTag THEN lv.value[1] ELSE lv, v)
    IN [reg |-> g.reg, n |-> g.n, name |-> g.tr.name, skipped |-> FALSE,
        called |-> g.err = "none", err |-> IF g.err # "none" THEN g.err ELSE r.err,
        out |-> r.out]
\* the outcome of one round of the loop of UnionTransformer.to_python_value for the
\* variant type v: skipped when the tag or the castability test passes the variant
\* over, called when the variant's to_python_value was called, err the exception
DecodeVariant(reg, n, lv, v) ==
    LET g == GetTransformer(reg, n, v)
        tagged == UnionTag(lv) # NoTag
        elt == ToLiteralType(g.reg, g.n, v)
        r == TransformerToPythonValue(g.tr, IF tagged THEN lv.value[1] ELSE lv, v)
        passed == [reg |-> g.reg, n |-> g.n, name |-> g.tr.name, skipped |-> TRUE,
                   called |-> FALSE, err |-> "none", out |-> NoValue]
    IN IF g.err # "none"
       THEN [passed EXCEPT !.skipped = FALSE, !.err = g.err]
       ELSE IF tagged /\ g.tr.name # UnionTag(lv) /\ ~IsDataclass(v)
       THEN passed
       ELSE IF tagged /\ elt.err # "none"
       THEN [passed EXCEPT !.skipped = FALSE, !.err = elt.err]
       ELSE IF tagged /\ ~AreTypesCastable(lv.stored_type, elt.out)
       THEN passed
       ELSE [passed EXCEPT !.skipped = FALSE, !.called = TRUE, !.err = r.err, !.out = r.out]

\* UnionTransformer.to_python_value, the loop from its variant types on
RECURSIVE UnionToPythonValueLoop(_, _, _, _, _, _, _)
UnionToPythonValueLoop(reg, n, lv, types, found_res, found, tried) ==
    IF types = <<>>
    THEN IF found_res
         THEN UnionResult(reg, n, "none", found, tried, FALSE)
         ELSE UnionResult(reg, n, "TypeError", NoValue, tried, FALSE)
    ELSE Once(DecodeVariant(reg, n, lv, Head(types)), LAMBDA s :
            LET called == IF s.called THEN Append(tried, s.name) ELSE tried
            IN IF s.skipped \/ s.err \in CaughtDecoding
               THEN UnionToPythonValueLoop(s.reg, s.n, lv, Tail(types), found_res, found, called)
               ELSE IF s.err # "none"
               THEN UnionResult(s.reg, s.n, s.err, NoValue, called, FALSE)
               ELSE IF found_res
               THEN UnionResult(s.reg, s.n, "TypeError", NoValue, called, TRUE)
               ELSE UnionToPythonValueLoop(s.reg, s.n, lv, Tail(types), TRUE, s.out, called))

UnionToPythonValue(reg, n, lv, expected_python_type) ==
    UnionToPythonValueLoop(reg, n, lv, UnionArgs(StripAnnotated(expected_python_type)),
                           FALSE, NoValue, <<>>)
(***************************************************************************)
(* TypeEngine.to_literal_type, to_literal and to_python_value.  A result   *)
(* holds the registry and instance counts after the call, the transformer  *)
(* the call dispatched to, err and the value returned.                     *)
(***************************************************************************)
Raised(g, err, nothing) ==
    [reg |-> g.reg, n |-> g.n, tr |-> g.tr, err |-> err, out |-> nothing,
     tried |-> <<>>, ambiguous |-> FALSE]

\* the result of a conversion the union transformer made
Dispatched(g, u) ==
    [reg |-> u.reg, n |-> u.n, tr |-> g.tr, err |-> u.err, out |-> u.out,
     tried |-> u.tried, ambiguous |-> u.ambiguous]

ToLiteralType(reg, n, python_type) ==
    LET g == GetTransformer(reg, n, python_type)
    IN  IF g.err # "none"
        THEN Raised(g, g.err, NoLiteralType)
        ELSE IF g.tr.kind = "union"
        THEN Dispatched(g, UnionGetLiteralType(g.reg, g.n, python_type))
        ELSE LET r == GetLiteralType(g.tr, python_type)
             IN [reg |-> g.reg, n |-> g.n, tr |-> g.tr, err |-> r.err, out |-> r.out,
                 tried |-> <<>>, ambiguous |-> FALSE]

ToLiteral(reg, n, val, python_type, expected) ==
    IF val = NoneValue /\ expected.k # "union"
    THEN [reg |-> reg, n |-> n, tr |-> NoTransformer, err |-> "TypeTransformerFailedError",
          out |-> NoLiteral, tried |-> <<>>, ambiguous |-> FALSE]
    ELSE LET g == GetTransformer(reg, n, python_type)
         IN IF g.err # "none"
            THEN Raised(g, g.err, NoLiteral)
            ELSE IF AssertType(g.tr, python_type, val) # "none"
            THEN Raised(g, AssertType(g.tr, python_type, val), NoLiteral)
            ELSE IF g.tr.kind = "union"
            THEN Dispatched(g, UnionToLiteral(g.reg, g.n, val, python_type, expected))
            ELSE LET r == TransformerToLiteral(g.tr, val, python_type, expected)
                 IN [reg |-> g.reg, n |-> g.n, tr |-> g.tr, err |-> r.err, out |-> r.out,
                     tried |-> <<>>, ambiguous |-> FALSE]

ToPythonValue(reg, n, lv, expected_python_type) ==
    LET g == GetTransformer(reg, n, expected_python_type)
    IN  IF g.err # "none"
        THEN Raised(g, g.err, NoValue)
        ELSE IF g.tr.kind = "union"
        THEN Dispatched(g, UnionToPythonValue(g.reg, g.n, lv, expected_python_type))
        ELSE LET r == TransformerToPythonValue(g.tr, lv, expected_python_type)
             IN [reg |-> g.reg, n |-> g.n, tr |-> g.tr, err |-> r.err, out |-> r.out,
                 tried |-> <<>>, ambiguous |-> FALSE]

(***************************************************************************)
(* TypeEngine.dict_to_literal_map.  The dict d is the sequence of its      *)
(* entries [k, v] in insertion order, type_hints a function of the hinted  *)
(* keys.  A result holds the registry and instance counts, err, the        *)
(* literal map returned and the arguments of the FlyteTypeException.       *)
(***************************************************************************)
EmptyDict == <<>>

\* d.update(other)
DictUpdate(d, other) ==
    [k \in DOMAIN d \cup DOMAIN other |-> IF k \in DOMAIN other THEN other[k] ELSE d[k]]
\* FlyteTypeException(received_type, expected_type, received_value=...)
FlyteTypeException(received_type, expected_type, received_value) ==
    [received_type |-> received_type, expected_type |-> expected_type,
     received_value |-> received_value]

NoException == FlyteTypeException(NoType, NoType, NoValue)

\* the exceptions `except TypeError` catches: TypeError and its subclass
\* TypeTransformerFailedError
IsTypeError(err) == err \in {"TypeError", "TypeTransformerFailedError"}

\* Faulty variant: the runtime type of the value is used, hint or not.
EntryTypeOfValue(type_hints, entry) == entry.v.ty

\* type_hints.get(k, type(v))
EntryType(type_hints, entry) ==
    IF entry.k \in DOMAIN type_hints THEN type_hints[entry.k] ELSE entry.v.ty

\* one round of the loop: to_literal_type, then to_literal with its result
EncodeEntry(reg, n, type_hints, entry) ==
    LET python_type == EntryType(type_hints, entry)
    IN Once(ToLiteralType(reg, n, python_type), LAMBDA e :
          IF e.err # "none"
          THEN [reg |-> e.reg, n |-> e.n, err |-> e.err, out |-> NoLiteral,
                python_type |-> python_type]
          ELSE Once(ToLiteral(e.reg, e.n, entry.v, python_type, e.out), LAMBDA l :
                  [reg |-> l.reg, n |-> l.n, err |-> l.err, out |-> l.out,
                   python_type |-> python_type]))

DictResult(reg, n, err, out, exc) == [reg |-> reg, n |-> n, err |-> err, out |-> out, exc |-> exc]

\* Faulty variant: every exception of an entry becomes the FlyteTypeException.
RECURSIVE DictToLiteralMapCatchAll(_, _, _, _, _)
DictToLiteralMapCatchAll(reg, n, d, type_hints, literal_map) ==
    IF d = <<>>
    THEN DictResult(reg, n, "none", literal_map, NoException)
    ELSE Once(EncodeEntry(reg, n, type_hints, Head(d)), LAMBDA s :
            IF s.err # "none"
            THEN DictResult(s.reg, s.n, "FlyteTypeException", EmptyDict,
                            FlyteTypeException(Head(d).v.ty, s.python_type, Head(d).v))
            ELSE DictToLiteralMapCatchAll(s.reg, s.n, Tail(d), type_hints,
                                          DictUpdate(literal_map, Head(d).k :> s.out)))

\* the loop of dict_to_literal_map from the entries d on, literal_map holding the
\* entries encoded so far
RECURSIVE DictToLiteralMapLoop(_, _, _, _, _)
DictToLiteralMapLoop(reg, n, d, type_hints, literal_map) ==
    IF d = <<>>
    THEN DictResult(reg, n, "none", literal_map, NoException)
    ELSE Once(EncodeEntry(reg, n, type_hints, Head(d)), LAMBDA s :
            IF IsTypeError(s.err)
            THEN DictResult(s.reg, s.n, "FlyteTypeException", EmptyDict,
                            FlyteTypeException(Head(d).v.ty, s.python_type, Head(d).v))
            ELSE IF s.err # "none"
            THEN DictResult(s.reg, s.n, s.err, EmptyDict, NoException)
            ELSE DictToLiteralMapLoop(s.reg, s.n, Tail(d), type_hints,
                                      DictUpdate(literal_map, Head(d).k :> s.out)))

\* TypeEngine.dict_to_literal_map(ctx, d, type_hints)
DictToLiteralMap(reg, n, d, type_hints) == DictToLiteralMapLoop(reg, n, d, type_hints, EmptyDict)
(***************************************************************************)
(* TypeEngine.guess_python_type: every transformer of the registry is      *)
(* asked in insertion order; a ValueError moves on to the next, any other  *)
(* exception leaves the loop.  A result holds err and the type guessed.    *)
(***************************************************************************)
RECURSIVE GuessPythonType(_, _, _)
RECURSIVE GuessVariants(_, _, _)

\* the guesses of a union's variants, in order
GuessVariants(reg, variants, acc) ==
    IF variants = <<>>
    THEN [err |-> "none", out |-> acc]
    ELSE LET g == GuessPythonType(reg, Head(variants), 1)
         IN IF g.err # "none"
            THEN [err |-> g.err, out |-> acc]
            ELSE GuessVariants(reg, Tail(variants), Append(acc, g.out))

\* typing.Union[tuple(types)]: a union of one type, or of equal types, is that type
UnionOf(types) ==
    IF types # <<>> /\ \A i \in 1..Len(types) : types[i] = types[1]
    THEN types[1]
    ELSE "Union"

\* typing.List[ct] and typing.Dict[str, mt]
ListOf(ct) == "List[" \o ct \o "]"

DictOf(mt) == "Dict[str, " \o mt \o "]"

\* transformer.guess_python_type(literal_type)
TransformerGuess(reg, tr, lt) ==
    LET declines == [err |-> "ValueError", out |-> NoType]
    IN CASE tr.kind = "simple" ->
                IF lt.k = "simple" /\ lt.simple = tr.lt
                THEN [err |-> "none", out |-> tr.t]
                ELSE declines
         [] tr.kind = "dataclass" ->
                IF lt.tag = NoTag
                THEN [err |-> "AttributeError", out |-> NoType]
                ELSE IF lt.tag = TagFromType(tr.t)
                     THEN [err |-> "none", out |-> tr.t]
                     ELSE declines
         [] tr.kind = "pickle" ->
                IF lt.k = "blob" /\ lt.format = PYTHON_PICKLE_FORMAT
                THEN [err |-> "none", out |-> tr.t]
                ELSE declines
         [] tr.kind = "union" ->
                IF lt.k = "union"
                THEN LET g == GuessVariants(reg, lt.variants, <<>>)
                     IN IF g.err # "none"
                        THEN [err |-> g.err, out |-> NoType]
                        ELSE [err |-> "none", out |-> UnionOf(g.out)]
                ELSE declines
         [] tr.kind = "list" ->
                IF lt.k = "collection"
                THEN LET ct == GuessPythonType(reg, lt.sub[1], 1)
                     IN IF ct.err # "none"
                        THEN ct
                        ELSE [err |-> "none", out |-> ListOf(ct.out)]
                ELSE declines
         [] tr.kind = "dict" ->
                IF lt.k = "map"
                THEN LET mt == GuessPythonType(reg, lt.sub[1], 1)
                     IN IF mt.err # "none"
                        THEN mt
                        ELSE [err |-> "none", out |-> DictOf(mt.out)]
                ELSE IF lt.k = "simple" /\ lt.simple = "STRUCT" /\ lt.metadata = <<>>
                     THEN [err |-> "none", out |-> "dict"]
                     ELSE declines
         [] OTHER -> declines

\* the loop asking the transformers from the last registered to the first
GuessPythonTypeLastFirst(reg, flyte_type, i) ==
    IF i > Len(reg)
    THEN [err |-> "ValueError", out |-> NoType]
    ELSE LET g == TransformerGuess(reg, reg[Len(reg) + 1 - i].tr, flyte_type)
         IN IF g.err = "ValueError"
            THEN GuessPythonType(reg, flyte_type, i + 1)
            ELSE g

\* TypeEngine.guess_python_type(flyte_type), the loop from the transformer at i on
GuessPythonType(reg, flyte_type, i) ==
    IF i > Len(reg)
    THEN [err |-> "ValueError", out |-> NoType]
    ELSE LET g == TransformerGuess(reg, reg[i].tr, flyte_type)
         IN IF g.err = "ValueError"
            THEN GuessPythonType(reg, flyte_type, i + 1)
            ELSE g

(***************************************************************************)
(* LiteralsResolver.  The object is a record: literals and variable_map as *)
(* the constructor got them (no variable map is the empty map: the code    *)
(* tests its truth), native_values the cache, type_hints the hints.        *)
(***************************************************************************)
\* LiteralsResolver(literals, variable_map)
LiteralsResolver(literals, variable_map) ==
    [literals |-> literals, variable_map |-> variable_map,
     native_values |-> EmptyDict, type_hints |-> EmptyDict]

\* as_type is None
NoAsType == "None"

\* Faulty variant: the cache is never consulted.
IsCachedNever(r, key) == FALSE

\* key in self._native_values
IsCached(r, key) == key \in DOMAIN r.native_values

\* Faulty variant: a registered hint wins over the as_type argument.
ResolveTypeHintFirst(reg, r, attr, as_type) ==
    IF attr \in DOMAIN r.type_hints
    THEN [err |-> "none", out |-> r.type_hints[attr]]
    ELSE IF as_type # NoAsType
    THEN [err |-> "none", out |-> as_type]
    ELSE IF attr \in DOMAIN r.variable_map
    THEN GuessPythonType(reg, r.variable_map[attr], 1)
    ELSE [err |-> "none", out |-> NoAsType]

\* get, the block under "if as_type is None": the type to decode into.  The
\* ValueError of the last branch is constructed and not raised: as_type stays None
ResolveType(reg, r, attr, as_type) ==
    IF as_type # NoAsType
    THEN [err |-> "none", out |-> as_type]
    ELSE IF attr \in DOMAIN r.type_hints
    THEN [err |-> "none", out |-> r.type_hints[attr]]
    ELSE IF attr \in DOMAIN r.variable_map
    THEN GuessPythonType(reg, r.variable_map[attr], 1)
    ELSE [err |-> "none", out |-> NoAsType]

\* what a resolver call leaves: the registry and instance counts, the resolver, err
\* and the value returned, whether TypeEngine.to_python_value was called and the
\* type it was called with
ResolverResult(reg, n, r, err, out, decoded, used) ==
    [reg |-> reg, n |-> n, res |-> r, err |-> err, out |-> out,
     decoded |-> decoded, used |-> used]

\* Faulty variant: the key is entered in the cache before the value is decoded.
ResolverGetCachesFirst(reg, n, r, attr, as_type) ==
    IF attr \notin DOMAIN r.literals
    THEN ResolverResult(reg, n, r, "AttributeError", NoValue, FALSE, NoType)
    ELSE IF IsCached(r, attr)
    THEN ResolverResult(reg, n, r, "none", r.native_values[attr], FALSE, NoType)
    ELSE Once(ResolveType(reg, r, attr, as_type), LAMBDA t :
            IF t.err # "none"
            THEN ResolverResult(reg, n, r, t.err, NoValue, FALSE, NoType)
            ELSE Once(ToPythonValue(reg, n, r.literals[attr], t.out), LAMBDA d :
                    ResolverResult(d.reg, d.n,
                        [r EXCEPT !.native_values = DictUpdate(@, attr :> d.out)],
                        d.err, d.out, TRUE, t.out)))
\* LiteralsResolver.get(attr, as_type)
ResolverGet(reg, n, r, attr, as_type) ==
    IF attr \notin DOMAIN r.literals
    THEN ResolverResult(reg, n, r, "AttributeError", NoValue, FALSE, NoType)
    ELSE IF IsCached(r, attr)
    THEN ResolverResult(reg, n, r, "none", r.native_values[attr], FALSE, NoType)
    ELSE Once(ResolveType(reg, r, attr, as_type), LAMBDA t :
            IF t.err # "none"
            THEN ResolverResult(reg, n, r, t.err, NoValue, FALSE, NoType)
            ELSE Once(ToPythonValue(reg, n, r.literals[attr], t.out), LAMBDA d :
                    IF d.err # "none"
                    THEN ResolverResult(d.reg, d.n, r, d.err, NoValue, TRUE, t.out)
                    ELSE ResolverResult(d.reg, d.n,
                             [r EXCEPT !.native_values = DictUpdate(@, attr :> d.out)],
                             "none", d.out, TRUE, t.out)))

\* Faulty variant: the index read leaves the check of the key to get.
ResolverGetItemNoCheck(reg, n, r, key) ==
    IF IsCached(r, key)
    THEN ResolverResult(reg, n, r, "none", r.native_values[key], FALSE, NoType)
    ELSE ResolverGet(reg, n, r, key, NoAsType)
\* LiteralsResolver.__getitem__(key)
ResolverGetItem(reg, n, r, key) ==
    IF key \notin DOMAIN r.literals
    THEN ResolverResult(reg, n, r, "ValueError", NoValue, FALSE, NoType)
    ELSE IF IsCached(r, key)
    THEN ResolverResult(reg, n, r, "none", r.native_values[key], FALSE, NoType)
    ELSE ResolverGet(reg, n, r, key, NoAsType)

(***************************************************************************)
(* The calls of the model and their inputs.                                *)
(***************************************************************************)
QueryTypes ==
    {"int", "Ann_int", "List_int", "Set_int", "Tuple_int", "MyTuple",
     "DC", "DCSet", "Custom", "Ann_Custom", "Multi"}

\* the types get_transformer can construct a transformer for
LazyTypes == {"DC", "DCSet", "Point", "PointD", "Custom", "Multi"}

AdditionalTypeLists == { <<>>, <<"Mixin">>, <<"int">> }

RestrictableTypes == {"Custom"}

AdditionalTypes == {"tuple", "Mixin"}

\* the types, values, expected wire types and wire values handed to the conversions
ConvTypes == {"int", "tuple", "Tuple_int", "MyTuple", "NamedTuple", "Custom", "Ann_Custom"}

ConvValues ==
    { Value("int", 1), NoneValue, Value("tuple", 2), Value("MyTuple", 3), Value("Custom", 4) }

ConvExpected ==
    { SimpleLiteralType("INTEGER"),
      UnionLiteralType(<<SimpleLiteralType("INTEGER"), SimpleLiteralType("NONE")>>) }

ConvLiterals ==
    { PrimitiveLiteral("integer", 1), VoidLiteral,
      BlobLiteral(PYTHON_PICKLE_FORMAT, Value("Custom", 4)) }

\* the literals a resolver is constructed over, and the variable maps that come with
\* them: none, one that declares every key, one that declares only "a"
ResolverLiterals ==
    "a" :> PrimitiveLiteral("integer", 1)
    @@ "b" :> BlobLiteral(PYTHON_PICKLE_FORMAT, Value("Custom", 4))

VariableMaps ==
    { EmptyDict,
      "a" :> SimpleLiteralType("INTEGER") @@ "b" :> BlobLiteralType(PYTHON_PICKLE_FORMAT),
      "a" :> SimpleLiteralType("INTEGER") }

\* the keys read ("c" is no key of the literals), the as_type arguments and the hints
ResolverKeys == {"a", "b", "c"}

AsTypes == {NoAsType, "int", "float", "Custom"}

TypeHints == { "a" :> "float", "a" :> "Custom", "b" :> "Custom", "c" :> "float" }

\* the types other code looks up while the resolver is in use
LookedUpElsewhere == {"Point", "Custom"}

\* before a LiteralsResolver is constructed
NoResolver == LiteralsResolver(EmptyDict, EmptyDict)

\* the union types, values and wire values handed to the conversions
UnionTypes ==
    {"U_int_str", "Opt_int", "U_int_Custom", "U_int_AnnInt", "U_int_tuple_Custom", "U_int_Set",
     "U_int_Point", "U_Point_PointD", "U_Custom_IntColor", "U_Color_IntColor"}

UnionValues ==
    { Value("int", 1), Value("str", 2), Value("Custom", 4), NoneValue,
      DataclassValue("Point", [x |-> Value("int", 1)]), Value("Color", 1) }

\* the wire type of the dataclass t as some producer tagged it
TaggedDataclassType(t, tag) ==
    [MapLiteralType(NoLiteralType) EXCEPT !.metadata = DataclassFieldNames(t), !.tag = tag]

\* union literals with a tag that names a variant's transformer, with a tag that names
\* none, and without a tag; and literals that are no union
UnionLiterals ==
    { UnionLiteral(PrimitiveLiteral("integer", 1), AddTagToType(SimpleLiteralType("INTEGER"), "int")),
      UnionLiteral(PrimitiveLiteral("integer", 1), AddTagToType(SimpleLiteralType("INTEGER"), "float")),
      UnionLiteral(PrimitiveLiteral("integer", 1), SimpleLiteralType("INTEGER")),
      UnionLiteral(VoidLiteral, AddTagToType(SimpleLiteralType("NONE"), "none")),
      UnionLiteral(MapLiteral([x |-> PrimitiveLiteral("integer", 1)]),
                   TaggedDataclassType("Point", "Dataclass[Point]")),
      UnionLiteral(MapLiteral([x |-> PrimitiveLiteral("integer", 1)]),
                   TaggedDataclassType("Point", "Dataclass[Other]")),
      PrimitiveLiteral("integer", 1),
      VoidLiteral }
NoCall == [op |-> "none", arg |-> NoType, tr |-> NoTransformer, err |-> "none", step |-> 0,
           more |-> <<>>, override |-> FALSE,
           val |-> NoValue, expected |-> NoLiteralType, lv |-> NoLiteral, out |-> NoValue,
           key |-> "", decoded |-> FALSE, used |-> NoType,
           tried |-> <<>>, ambiguous |-> FALSE,
           d |-> <<>>, hints |-> EmptyDict, exc |-> NoException,
           upstream |-> NoLiteralType, downstream |-> NoLiteralType, castable |-> FALSE]

\* the threads calling get_transformer, and the types they look up
Threads == {"t1", "t2"}

ThreadTypes == {"Custom", "Point"}

\* a thread outside get_transformer; in a call, pc is the statement it executes next,
\* arg the type looked up, seen the size of _REGISTRY when its scan began, tr and
\* err what the call returned or raised
IdleThread == [pc |-> "idle", arg |-> NoType, seen |-> 0, tr |-> NoTransformer, err |-> "none"]

Init ==
    /\ registry = DefaultRegistry
    /\ restricted = DefaultRestrictedTypes
    /\ created = [t \in LazyTypes |-> 0]
    /\ last = NoCall
    /\ thr = [i \in Threads |-> IdleThread]
    /\ res = NoResolver

\* TypeEngine.register(transformer, additional_types)
Register ==
    \E tr \in UserTransformers, more \in AdditionalTypeLists :
        LET r == RegisterCall(registry, tr, more)
        IN /\ registry' = r.reg
           /\ last' = [NoCall EXCEPT !.op = "register", !.arg = tr.t, !.tr = tr, !.err = r.err,
                                     !.more = more]
           /\ UNCHANGED <<restricted, created, thr, res>>

\* TypeEngine.register_restricted_type(name, type)
RegisterRestrictedType ==
    \E t \in RestrictableTypes :
        LET tr == RestrictedTypeTransformer("restricted by caller", t)
            r == RegisterCall(registry, tr, <<>>)
        IN /\ Len(restricted) < MaxRestricted
           /\ restricted' = Append(restricted, t)
           /\ registry' = r.reg
           /\ last' = [NoCall EXCEPT !.op = "register_restricted_type", !.arg = t, !.tr = tr,
                                     !.err = r.err]
           /\ UNCHANGED <<created, thr, res>>

\* TypeEngine.register_additional_type(transformer, additional_type, override)
RegisterAdditionalType ==
    \E tr \in AliasTransformers, t \in AdditionalTypes, override \in BOOLEAN :
        /\ registry' = RegisterAdditionalCall(registry, tr, t, override)
        /\ last' = [NoCall EXCEPT !.op = "register_additional_type", !.arg = t, !.tr = tr,
                                  !.override = override]
        /\ UNCHANGED <<restricted, created, thr, res>>

\* TypeEngine.get_transformer(python_type)
GetTransformerOf(types) ==
    \E t \in types :
        \E r \in { GetTransformer(registry, created, t) } :
           /\ \A x \in LazyTypes : r.n[x] <= MaxInstances
           /\ registry' = r.reg
           /\ created' = r.n
           /\ last' = [NoCall EXCEPT !.op = "get_transformer", !.arg = t, !.tr = r.tr,
                                     !.err = r.err, !.step = r.step]
           /\ UNCHANGED <<restricted, thr, res>>

GetTransformerCall == GetTransformerOf(QueryTypes)

Next ==
    \/ Register
    \/ RegisterRestrictedType
    \/ RegisterAdditionalType
    \/ GetTransformerCall

Spec == Init /\ [][Next]_vars

(***************************************************************************)
(* The conversion entry points, on a registry that restricted and          *)
(* overriding registrations change.                                        *)
(***************************************************************************)
\* TypeEngine.to_literal_type(python_type)
ToLiteralTypeCall ==
    \E t \in ConvTypes :
        \E r \in { ToLiteralType(registry, created, t) } :
           /\ \A x \in LazyTypes : r.n[x] <= MaxInstances
           /\ registry' = r.reg
           /\ created' = r.n
           /\ last' = [NoCall EXCEPT !.op = "to_literal_type", !.arg = t, !.tr = r.tr,
                                     !.err = r.err, !.out = r.out]
           /\ UNCHANGED <<restricted, thr, res>>

\* TypeEngine.to_literal(ctx, python_val, python_type, expected)
ToLiteralCall ==
    \E t \in ConvTypes, val \in ConvValues, expected \in ConvExpected :
        \E r \in { ToLiteral(registry, created, val, t, expected) } :
           /\ \A x \in LazyTypes : r.n[x] <= MaxInstances
           /\ registry' = r.reg
           /\ created' = r.n
           /\ last' = [NoCall EXCEPT !.op = "to_literal", !.arg = t, !.tr = r.tr,
                                     !.err = r.err, !.out = r.out,
                                     !.val = val, !.expected = expected]
           /\ UNCHANGED <<restricted, thr, res>>

\* TypeEngine.to_python_value(ctx, lv, expected_python_type)
ToPythonValueCall ==
    \E t \in ConvTypes, lv \in ConvLiterals :
        \E r \in { ToPythonValue(registry, created, lv, t) } :
           /\ \A x \in LazyTypes : r.n[x] <= MaxInstances
           /\ registry' = r.reg
           /\ created' = r.n
           /\ last' = [NoCall EXCEPT !.op = "to_python_value", !.arg = t, !.tr = r.tr,
                                     !.err = r.err, !.out = r.out, !.lv = lv]
           /\ UNCHANGED <<restricted, thr, res>>

ConvNext ==
    \/ RegisterRestrictedType
    \/ RegisterAdditionalType
    \/ ToLiteralTypeCall
    \/ ToLiteralCall
    \/ ToPythonValueCall

ConvSpec == Init /\ [][ConvNext]_vars

(***************************************************************************)
(* Conversions of union types.                                             *)
(***************************************************************************)
\* TypeEngine.to_literal(ctx, python_val, python_type, expected) for a union type
UnionToLiteralCall ==
    \E t \in UnionTypes, val \in UnionValues, expected \in ConvExpected :
        \E r \in { ToLiteral(registry, created, val, t, expected) } :
           /\ \A x \in LazyTypes : r.n[x] <= MaxInstances
           /\ registry' = r.reg
           /\ created' = r.n
           /\ last' = [NoCall EXCEPT !.op = "to_literal", !.arg = t, !.tr = r.tr,
                                     !.err = r.err, !.out = r.out,
                                     !.val = val, !.expected = expected,
                                     !.tried = r.tried, !.ambiguous = r.ambiguous]
           /\ UNCHANGED <<restricted, thr, res>>

\* the literal the last call returned, if it was a to_literal that returned one
Encoded(call) == IF call.op = "to_literal" /\ call.err = "none" THEN {call.out} ELSE {}

\* TypeEngine.to_python_value(ctx, lv, expected_python_type) for a union type, of a
\* given literal or of the literal the last to_literal returned
UnionToPythonValueCall ==
    \E t \in UnionTypes, lv \in UnionLiterals \cup Encoded(last) :
        \E r \in { ToPythonValue(registry, created, lv, t) } :
           /\ \A x \in LazyTypes : r.n[x] <= MaxInstances
           /\ registry' = r.reg
           /\ created' = r.n
           /\ last' = [NoCall EXCEPT !.op = "to_python_value", !.arg = t, !.tr = r.tr,
                                     !.err = r.err, !.out = r.out, !.lv = lv,
                                     !.tried = r.tried, !.ambiguous = r.ambiguous]
           /\ UNCHANGED <<restricted, thr, res>>

UnionNext ==
    \/ UnionToLiteralCall
    \/ UnionToPythonValueCall

UnionSpec == Init /\ [][UnionNext]_vars

(***************************************************************************)
(* The conversions of dataclass types: TypeEngine.to_literal and           *)
(* TypeEngine.to_python_value dispatching to the DataclassTransformer that *)
(* get_transformer constructs.                                             *)
(***************************************************************************)
DataclassTypes == {"Point", "PointD", "DC"}

DataclassValues ==
    { DataclassValue("Point", [x |-> Value("int", 1)]),
      DataclassValue("PointD", [x |-> Value("int", 1), y |-> Value("int", 2)]),
      DataclassValue("DC", [a |-> Value("Custom", 4), b |-> Value("int", 1)]),
      Value("int", 1) }

DataclassExpected ==
    { TaggedDataclassType("Point", TagFromType("Point")),
      TaggedDataclassType("PointD", TagFromType("PointD")),
      TaggedDataclassType("DC", TagFromType("DC")),
      SimpleLiteralType("INTEGER") }

\* wire maps that hold all, some and none of the fields, a field of another wire
\* kind, and a literal that is no map
DataclassLiterals ==
    { MapLiteral([x |-> PrimitiveLiteral("integer", 1)]),
      MapLiteral([x |-> PrimitiveLiteral("integer", 1), y |-> PrimitiveLiteral("integer", 2)]),
      MapLiteral([y |-> PrimitiveLiteral("integer", 2)]),
      MapLiteral([x |-> PrimitiveLiteral("string_value", 1)]),
      MapLiteral([a |-> BlobLiteral(PYTHON_PICKLE_FORMAT, Value("Custom", 4))]),
      MapLiteral(<<>>),
      PrimitiveLiteral("integer", 1) }

\* TypeEngine.to_literal(ctx, python_val, python_type, expected) for a dataclass type
DataclassToLiteralCall ==
    \E t \in DataclassTypes, val \in DataclassValues, expected \in DataclassExpected :
        \E r \in { ToLiteral(registry, created, val, t, expected) } :
           /\ \A x \in LazyTypes : r.n[x] <= MaxInstances
           /\ registry' = r.reg
           /\ created' = r.n
           /\ last' = [NoCall EXCEPT !.op = "to_literal", !.arg = t, !.tr = r.tr,
                                     !.err = r.err, !.out = r.out,
                                     !.val = val, !.expected = expected]
           /\ UNCHANGED <<restricted, thr, res>>

\* TypeEngine.to_python_value(ctx, lv, expected_python_type) for a dataclass type, of
\* a given literal or of the literal the last to_literal returned
DataclassToPythonValueCall ==
    \E t \in DataclassTypes, lv \in DataclassLiterals \cup Encoded(last) :
        \E r \in { ToPythonValue(registry, created, lv, t) } :
           /\ \A x \in LazyTypes : r.n[x] <= MaxInstances
           /\ registry' = r.reg
           /\ created' = r.n
           /\ last' = [NoCall EXCEPT !.op = "to_python_value", !.arg = t, !.tr = r.tr,
                                     !.err = r.err, !.out = r.out, !.lv = lv]
           /\ UNCHANGED <<restricted, thr, res>>

DataclassNext ==
    \/ DataclassToLiteralCall
    \/ DataclassToPythonValueCall

DataclassSpec == Init /\ [][DataclassNext]_vars
(***************************************************************************)
(* TypeEngine.dict_to_literal_map on dicts of up to MaxEntries entries.    *)
(***************************************************************************)
\* the dicts whose keys are the first of "a", "b", "c", inserted in this order
Dicts ==
    LET values == { Value("int", 1), Value("str", 2), Value("Custom", 4), Value("tuple", 2),
                    NoneValue }
    IN { d \in UNION { [1..len -> [k : {"a", "b", "c"}, v : values]] : len \in 0..MaxEntries } :
           \A i \in 1..Len(d) : d[i].k = <<"a", "b", "c">>[i] }

DictTypeHints ==
    { EmptyDict, "a" :> "Custom", "a" :> "Set_int", "a" :> "float", "b" :> "int",
      "a" :> "Opt_int" }

\* TypeEngine.dict_to_literal_map(ctx, d, type_hints)
DictToLiteralMapCall ==
    \E d \in Dicts, type_hints \in DictTypeHints :
        \E r \in { DictToLiteralMap(registry, created, d, type_hints) } :
           /\ \A x \in LazyTypes : r.n[x] <= MaxInstances
           /\ registry' = r.reg
           /\ created' = r.n
           /\ last' = [NoCall EXCEPT !.op = "dict_to_literal_map", !.d = d,
                                     !.hints = type_hints, !.err = r.err, !.out = r.out,
                                     !.exc = r.exc]
           /\ UNCHANGED <<restricted, thr, res>>

DictNext == DictToLiteralMapCall

DictSpec == Init /\ [][DictNext]_vars
(***************************************************************************)
(* _are_types_castable on wire types: simple types, an enum, a blob, a     *)
(* tagged type, collections, maps, unions and structured datasets that     *)
(* differ in one attribute each.                                           *)
(***************************************************************************)
ParquetDataset(columns) == StructuredDatasetLiteralType(columns, "parquet", "", "")

CastTypes ==
    { ParquetDataset(<<DatasetColumn("a", SimpleLiteralType("INTEGER"))>>),
      ParquetDataset(<<DatasetColumn("a", SimpleLiteralType("STRING"))>>),
      ParquetDataset(<<DatasetColumn("a", EnumLiteralType(<<"red", "green">>))>>),
      ParquetDataset(<<DatasetColumn("a", AddTagToType(SimpleLiteralType("INTEGER"), "int"))>>),
      ParquetDataset(<<DatasetColumn("b", SimpleLiteralType("INTEGER"))>>),
      ParquetDataset(<<DatasetColumn("a", SimpleLiteralType("INTEGER")),
                       DatasetColumn("b", SimpleLiteralType("INTEGER"))>>),
      StructuredDatasetLiteralType(<<DatasetColumn("a", SimpleLiteralType("INTEGER"))>>,
                                   "csv", "", ""),
      StructuredDatasetLiteralType(<<DatasetColumn("a", SimpleLiteralType("INTEGER"))>>,
                                   "parquet", "arrow", "s1"),
      StructuredDatasetLiteralType(<<DatasetColumn("a", SimpleLiteralType("INTEGER"))>>,
                                   "parquet", "arrow", "s2"),
      StructuredDatasetLiteralType(<<DatasetColumn("a", SimpleLiteralType("INTEGER"))>>,
                                   "parquet", "avro", "s1"),
      SimpleLiteralType("INTEGER"), SimpleLiteralType("STRING"), SimpleLiteralType("NONE"),
      AddTagToType(SimpleLiteralType("INTEGER"), "int"),
      EnumLiteralType(<<"red", "green">>), BlobLiteralType(PYTHON_PICKLE_FORMAT),
      CollectionLiteralType(SimpleLiteralType("INTEGER")),
      CollectionLiteralType(SimpleLiteralType("STRING")),
      CollectionLiteralType(EnumLiteralType(<<"red", "green">>)),
      MapLiteralType(SimpleLiteralType("INTEGER")),
      MapLiteralType(SimpleLiteralType("STRING")),
      MapLiteralType(EnumLiteralType(<<"red", "green">>)),
      UnionLiteralType(<<SimpleLiteralType("INTEGER"), SimpleLiteralType("STRING")>>),
      UnionLiteralType(<<SimpleLiteralType("INTEGER"), SimpleLiteralType("NONE")>>),
      UnionLiteralType(<<EnumLiteralType(<<"red", "green">>), SimpleLiteralType("STRING")>>),
      UnionLiteralType(<<CollectionLiteralType(SimpleLiteralType("INTEGER")),
                         SimpleLiteralType("NONE")>>),
      UnionLiteralType(<<CollectionLiteralType(EnumLiteralType(<<"red", "green">>)),
                         CollectionLiteralType(SimpleLiteralType("STRING"))>>),
      UnionLiteralType(<<MapLiteralType(EnumLiteralType(<<"red", "green">>)),
                         MapLiteralType(SimpleLiteralType("STRING"))>>),
      UnionLiteralType(<<ParquetDataset(<<DatasetColumn("a", SimpleLiteralType("INTEGER"))>>),
                         SimpleLiteralType("NONE")>>) }

\* _are_types_castable(upstream, downstream)
AreTypesCastableCall ==
    \E upstream \in CastTypes, downstream \in CastTypes :
        /\ last' = [NoCall EXCEPT !.op = "are_types_castable",
                                  !.upstream = upstream, !.downstream = downstream,
                                  !.castable = AreTypesCastable(upstream, downstream)]
        /\ UNCHANGED <<registry, restricted, created, thr, res>>

CastNext == AreTypesCastableCall

CastSpec == Init /\ [][CastNext]_vars
(***************************************************************************)
(* A LiteralsResolver in use: hints are added and keys are read, while the *)
(* registry grows by the lookups of the reads and of other code.           *)
(***************************************************************************)
ResolverInit ==
    /\ registry = DefaultRegistry
    /\ restricted = DefaultRestrictedTypes
    /\ created = [t \in LazyTypes |-> 0]
    /\ last = NoCall
    /\ thr = [i \in Threads |-> IdleThread]
    /\ \E vm \in VariableMaps : res = LiteralsResolver(ResolverLiterals, vm)

\* LiteralsResolver.update_type_hints(type_hints)
UpdateTypeHints ==
    \E hints \in TypeHints :
        /\ res' = [res EXCEPT !.type_hints = DictUpdate(@, hints)]
        /\ last' = [NoCall EXCEPT !.op = "update_type_hints"]
        /\ UNCHANGED <<registry, restricted, created, thr>>

\* LiteralsResolver.get(attr, as_type)
Get ==
    \E attr \in ResolverKeys, as_type \in AsTypes :
        \E r \in { ResolverGet(registry, created, res, attr, as_type) } :
           /\ \A x \in LazyTypes : r.n[x] <= MaxInstances
           /\ registry' = r.reg
           /\ created' = r.n
           /\ res' = r.res
           /\ last' = [NoCall EXCEPT !.op = "get", !.key = attr, !.arg = as_type,
                                     !.err = r.err, !.out = r.out,
                                     !.decoded = r.decoded, !.used = r.used]
           /\ UNCHANGED <<restricted, thr>>

\* LiteralsResolver.__getitem__(key)
GetItem ==
    \E key \in ResolverKeys :
        \E r \in { ResolverGetItem(registry, created, res, key) } :
           /\ \A x \in LazyTypes : r.n[x] <= MaxInstances
           /\ registry' = r.reg
           /\ created' = r.n
           /\ res' = r.res
           /\ last' = [NoCall EXCEPT !.op = "getitem", !.key = key, !.arg = NoAsType,
                                     !.err = r.err, !.out = r.out,
                                     !.decoded = r.decoded, !.used = r.used]
           /\ UNCHANGED <<restricted, thr>>

ResolverNext ==
    \/ UpdateTypeHints
    \/ Get
    \/ GetItem
    \/ GetTransformerOf(LookedUpElsewhere)

ResolverSpec == ResolverInit /\ [][ResolverNext]_vars

(***************************************************************************)
(* get_transformer called from several threads.  The code takes no lock,   *)
(* so a thread can be preempted between any two statements: the membership *)
(* test of step 1, the iteration over the keys in step 4, the assignment   *)
(* to cls._REGISTRY[python_type] of steps 3 and 5 and the read of          *)
(* cls._REGISTRY[python_type] that returns.                                *)
(***************************************************************************)
\* a thread enters get_transformer(t)
ThreadCall(i) ==
    \E t \in ThreadTypes :
        /\ thr[i].pc = "idle"
        /\ thr' = [thr EXCEPT ![i] = [IdleThread EXCEPT !.pc = "exact", !.arg = t]]
        /\ UNCHANGED <<registry, restricted, created, last, res>>

\* step 1: if python_type in cls._REGISTRY: return cls._REGISTRY[python_type];
\* otherwise on to step 3 (a dataclass) or step 4
ThreadExactMatch(i) ==
    LET t == StripAnnotated(thr[i].arg)
    IN /\ thr[i].pc = "exact"
       /\ ~HasOrigin(t)
       /\ thr' = [thr EXCEPT ![i] =
                    IF InRegistry(registry, t)
                    THEN [@ EXCEPT !.pc = "done", !.tr = ExactMatch(registry, created, t).tr]
                    ELSE IF IsDataclass(t) THEN [@ EXCEPT !.pc = "insert"]
                    ELSE [@ EXCEPT !.pc = "scan"]]
       /\ UNCHANGED <<registry, restricted, created, last, res>>

\* step 4: for base_type in cls._REGISTRY.keys() creates the iterator
ThreadScanBegin(i) ==
    /\ thr[i].pc = "scan"
    /\ thr' = [thr EXCEPT ![i] = [@ EXCEPT !.pc = "scanning", !.seen = Len(registry)]]
    /\ UNCHANGED <<registry, restricted, created, last, res>>

\* step 4: the loop ends.  It returns the transformer of the first matching key; when
\* another thread inserted a key meanwhile, the iterator raises RuntimeError unless
\* the loop had returned a match among the keys it started with
ThreadScanEnd(i) ==
    LET t == thr[i].arg
        k == ScanBases(SubSeq(registry, 1, thr[i].seen), t, 1)
    IN /\ thr[i].pc = "scanning"
       /\ \/ /\ k # 0
             /\ thr' = [thr EXCEPT ![i] = [@ EXCEPT !.pc = "done", !.tr = registry[k].tr]]
          \/ /\ k = 0 \/ Len(registry) # thr[i].seen
             /\ thr' = [thr EXCEPT ![i] =
                          IF Len(registry) # thr[i].seen
                          THEN [@ EXCEPT !.pc = "done", !.err = "RuntimeError"]
                          ELSE [@ EXCEPT !.pc = "insert"]]
       /\ UNCHANGED <<registry, restricted, created, last, res>>

\* steps 3 and 5: cls._REGISTRY[python_type] = DataclassTransformer(python_type) or
\* FlytePickleTransformer(python_type)
ThreadInsert(i) ==
    LET t == thr[i].arg
        r == IF IsDataclass(t) THEN RegisterDataclass(registry, created, t)
             ELSE RegisterPickle(registry, created, t)
    IN /\ thr[i].pc = "insert"
       /\ created[t] < MaxInstances
       /\ registry' = r.reg
       /\ created' = r.n
       /\ thr' = [thr EXCEPT ![i] =
                    IF r.err # "none" THEN [@ EXCEPT !.pc = "done", !.err = r.err]
                    ELSE [@ EXCEPT !.pc = "return"]]
       /\ UNCHANGED <<restricted, last, res>>

\* steps 3 and 5: return cls._REGISTRY[python_type]
ThreadReturn(i) ==
    /\ thr[i].pc = "return"
    /\ thr' = [thr EXCEPT ![i] = [@ EXCEPT !.pc = "done", !.tr = Lookup(registry, thr[i].arg)]]
    /\ UNCHANGED <<registry, restricted, created, last, res>>

\* the caller drops the result; the thread is free for its next call
ThreadFinish(i) ==
    /\ thr[i].pc = "done"
    /\ thr' = [thr EXCEPT ![i] = IdleThread]
    /\ UNCHANGED <<registry, restricted, created, last, res>>

ConcNext ==
    \E i \in Threads :
        \/ ThreadCall(i)
        \/ ThreadExactMatch(i)
        \/ ThreadScanBegin(i)
        \/ ThreadScanEnd(i)
        \/ ThreadInsert(i)
        \/ ThreadReturn(i)
        \/ ThreadFinish(i)

ConcSpec == Init /\ [][ConcNext]_vars

(***************************************************************************)
(* Properties of the registry.                                             *)
(***************************************************************************)
\* the types one register call goes through
RegisteredTypes(call) == <<call.tr.t>> \o call.more

\* C1: register fails with the duplicate-registration error (ValueError) when the
\* transformer's type or one of the additional types is already registered, and after
\* the failure every type registered before the call still maps to its transformer.
C1_DuplicateRegistrationFails ==
    [][ last'.op = "register" =>
          LET types == RegisteredTypes(last')
          IN /\ (\E i \in 1..Len(types) : InRegistry(registry, types[i]))
                    => last'.err = "ValueError"
             /\ last'.err = "ValueError"
                    => \A t \in Keys(registry) : Lookup(registry', t) = Lookup(registry, t) ]_vars

\* C1 witness: a second transformer for Base was refused and Base keeps the first.
C1_Witness ==
    /\ last.op = "register" /\ last.err = "ValueError"
    /\ last.tr.name = "BaseT2"
    /\ Lookup(registry, "Base").name = "BaseT"

\* a registered key the type is an instance or subclass of
MatchesBase(reg, t, i) == reg[i].type # "None" /\ IsInstanceOrSubclass(t, reg[i].type)

\* the first tier of the five that applies to a looked-up type
TierOf(reg, q) ==
    LET t == StripAnnotated(q)
    IN  IF t \in Keys(reg) THEN 1
        ELSE IF HasOrigin(t) /\ Origin(t) \in Keys(reg) THEN 2
        ELSE IF IsDataclass(t) THEN 3
        ELSE IF \E i \in 1..Len(reg) : MatchesBase(reg, t, i) THEN 4
        ELSE 5

\* what a tier returns and does to the registry
TierOutcome(tier, reg, regAfter, q, tr) ==
    LET t == StripAnnotated(q)
    IN  CASE tier = 1 -> tr = Lookup(reg, t) /\ regAfter = reg
          [] tier = 2 -> tr = Lookup(reg, Origin(t)) /\ regAfter = reg
          [] tier = 3 -> /\ tr.kind = "dataclass" /\ tr.t = t
                         /\ Lookup(regAfter, t) = tr
          [] tier = 4 -> /\ regAfter = reg
                         /\ \E i \in 1..Len(reg) :
                               /\ MatchesBase(reg, t, i)
                               /\ \A j \in 1..(i - 1) : ~MatchesBase(reg, t, j)
                               /\ tr = reg[i].tr
          [] OTHER    -> /\ tr.kind = "pickle" /\ tr.t = t
                         /\ Lookup(regAfter, t) = tr
                         /\ Len(regAfter) = Len(reg) + 1

\* a type that is no registry key and whose generic origin is no registry key either
OriginUnregistered(reg, q) ==
    LET t == StripAnnotated(q)
    IN t \notin Keys(reg) /\ HasOrigin(t) /\ Origin(t) \notin Keys(reg)

\* C2 as stated: every lookup is answered by the first of the five tiers that applies.
C2_FirstTierAlwaysWins ==
    [][ last'.op = "get_transformer" =>
          /\ last'.err = "none"
          /\ last'.step = TierOf(registry, last'.arg)
          /\ TierOutcome(last'.step, registry, registry', last'.arg, last'.tr) ]_vars

\* C2 amended: the five tiers are tried in order and the first that applies answers,
\* except that a type with a generic origin that is not registered fails with
\* ValueError at tier 2 instead of moving on to tiers 3 to 5, and a record type with
\* such a field type fails likewise at tier 3.
C2_TiersInOrderUnlessOriginUnregistered ==
    [][ last'.op = "get_transformer" =>
          IF OriginUnregistered(registry, last'.arg)
          THEN last'.err = "ValueError" /\ last'.step = 2 /\ registry' = registry
          ELSE IF last'.err = "none"
          THEN /\ last'.step = TierOf(registry, last'.arg)
               /\ TierOutcome(last'.step, registry, registry', last'.arg, last'.tr)
          ELSE LET t == StripAnnotated(last'.arg)
               IN /\ last'.err = "ValueError" /\ last'.step = 3
                  /\ TierOf(registry, last'.arg) = 3
                  /\ \E i \in 1..Len(DataclassFieldTypes(t)) :
                        OriginUnregistered(registry, DataclassFieldTypes(t)[i]) ]_vars

\* C2 witness: a dataclass that subclasses a registered type got its own record
\* transformer (tier 3), not the transformer of its base (tier 4).
C2_Witness ==
    /\ last.op = "get_transformer" /\ last.arg = "DC" /\ last.step = 3
    /\ InRegistry(registry, "Base")
    /\ last.tr.kind = "dataclass"

\* a lookup that has to fail: an unregistered generic origin, of the type or of a field
RECURSIVE LookupFails(_, _)
LookupFails(reg, q) ==
    LET t == StripAnnotated(q)
    IN /\ t \notin Keys(reg)
       /\ IF HasOrigin(t)
          THEN Origin(t) \notin Keys(reg)
          ELSE /\ IsDataclass(t)
               /\ \E i \in 1..Len(DataclassFieldTypes(t)) :
                     LookupFails(reg, DataclassFieldTypes(t)[i])

\* C3 as stated: get_transformer never fails.
C3_NeverFails == last.op = "get_transformer" => last.err = "none"

\* C3 amended: get_transformer always terminates, and it returns a transformer unless
\* the type (or a field type of a record type) has a generic origin that is not
\* registered; in that case, and only then, it raises ValueError.
C3_FailsOnlyOnUnregisteredOrigin ==
    [][ last'.op = "get_transformer" =>
          /\ last'.err \in {"none", "ValueError"}
          /\ (last'.err = "ValueError") <=> LookupFails(registry, last'.arg)
          /\ (last'.err = "none") <=> (last'.tr # NoTransformer) ]_vars

\* C3 witness: the lookup of a record type failed on its Set[int] field after the
\* field before it had been registered by the fallback.
C3_Witness ==
    /\ last.op = "get_transformer" /\ last.arg = "DCSet" /\ last.err = "ValueError"
    /\ Lookup(registry, "Custom").kind = "pickle"

\* C4: once the fallback has registered a type, a later get_transformer for the type
\* returns the registered transformer and leaves the registry as it was.
C4_FallbackRegisteredOnce ==
    [][ /\ last'.op = "get_transformer"
        /\ ~IsDataclass(StripAnnotated(last'.arg))
        /\ StripAnnotated(last'.arg) \in LazyTypes
        /\ created[StripAnnotated(last'.arg)] >= 1
        => /\ registry' = registry
           /\ created' = created
           /\ last'.err = "none"
           /\ last'.tr = Lookup(registry, StripAnnotated(last'.arg)) ]_vars

\* C4 witness: a second lookup of Custom, answered from the registry.
C4_Witness ==
    /\ last.op = "get_transformer" /\ last.arg = "Custom" /\ last.step = 1
    /\ created["Custom"] = 1
    /\ last.tr = FlytePickleTransformer("Custom", 1)

\* C5: no call removes a key from the registry.
C5_RegistryOnlyGrows == [][ Keys(registry) \subseteq Keys(registry') ]_vars

\* C5 witness: a failed register call on a registry that has grown by lazy registration.
C5_Witness ==
    /\ last.op = "register" /\ last.err = "ValueError"
    /\ InRegistry(registry, "Custom") /\ InRegistry(registry, "DC")
    /\ Len(registry) > Len(DefaultRegistry)

\* C6 as stated: no call changes the transformer of a registered type.
C6_TransformerNeverChanges ==
    [][ \A t \in Keys(registry) :
           GetTransformer(registry', created', t).tr = GetTransformer(registry, created, t).tr ]_vars

\* C6 amended: the transformer of a registered type stays the same through register,
\* register_restricted_type, get_transformer and register_additional_type without
\* override; only register_additional_type with override=True replaces it.
C6_TransformerChangesOnlyByOverride ==
    [][ ~(last'.op = "register_additional_type" /\ last'.override) =>
          \A t \in Keys(registry) :
             GetTransformer(registry', created', t).tr = GetTransformer(registry, created, t).tr ]_vars

\* C6 witness: register_additional_type without override on the registered type tuple
\* left tuple with its restricted transformer.
C6_Witness ==
    /\ last.op = "register_additional_type" /\ ~last.override /\ last.arg = "tuple"
    /\ Lookup(registry, "tuple") = RestrictedTypeTransformer("non typed tuple", "tuple")

(***************************************************************************)
(* Properties of get_transformer under concurrent callers.                 *)
(***************************************************************************)
\* thread i is back from get_transformer(t)
Returned(i, t) == thr[i].pc = "done" /\ thr[i].arg = t

\* C8: the first-seen lazy registration path of get_transformer is serialized by
\* mutual exclusion: when several threads look up the same unseen record or fallback
\* type at once, exactly one transformer instance is created and inserted for it, and
\* every thread gets that same instance.
C8_LazyRegistrationSerialized ==
    \A t \in ThreadTypes :
        /\ created[t] <= 1
        /\ \A i \in Threads, j \in Threads :
              Returned(i, t) /\ Returned(j, t)
              => thr[i].err = "none" /\ thr[i].tr = thr[j].tr

(***************************************************************************)
(* Properties of the LiteralsResolver.                                     *)
(***************************************************************************)
\* the last call was a read of the resolver: get(key, as_type) or resolver[key]
IsRead(call) == call.op \in {"get", "getitem"}

\* C9: a decoded value is cached for ever.  A successful get or index read leaves the
\* key cached with the value it returned; a cached key stays cached with the same
\* value whatever is called; and a read of a cached key returns the cached value
\* without calling TypeEngine.to_python_value and without touching the registry,
\* whatever as_type is passed and whatever hints were added since.
C9_DecodedValueCachedForEver ==
    [][ /\ \A k \in DOMAIN res.native_values :
              /\ k \in DOMAIN res'.native_values
              /\ res'.native_values[k] = res.native_values[k]
        /\ IsRead(last') /\ last'.err = "none"
              => /\ last'.key \in DOMAIN res'.native_values
                 /\ res'.native_values[last'.key] = last'.out
        /\ IsRead(last') /\ last'.key \in DOMAIN res.native_values
              => /\ last'.err = "none"
                 /\ last'.out = res.native_values[last'.key]
                 /\ ~last'.decoded
                 /\ registry' = registry /\ created' = created /\ res' = res ]_vars

\* C9 witness: "a" was decoded as an int, a hint float was added for it, and
\* get("a", float) returned the cached int without decoding.
C9_Witness ==
    /\ last.op = "get" /\ last.key = "a" /\ last.arg = "float"
    /\ "a" \in DOMAIN res.type_hints /\ res.type_hints["a"] = "float"
    /\ ~last.decoded /\ last.err = "none"
    /\ last.out = Value("int", 1)

\* the type the precedence of the claim names for a first read, NoType when neither
\* an as_type, a hint nor a declared wire type is there
TypeByPrecedence(reg, r, key, as_type) ==
    IF as_type # NoAsType THEN [err |-> "none", out |-> as_type]
    ELSE IF key \in DOMAIN r.type_hints THEN [err |-> "none", out |-> r.type_hints[key]]
    ELSE IF key \in DOMAIN r.variable_map THEN GuessPythonType(reg, r.variable_map[key], 1)
    ELSE [err |-> "none", out |-> NoType]

\* C10: on the first read of a key (a key of the literals, not cached), the type
\* decoded into is the as_type argument, else the hint registered for the key, else
\* the type guess_python_type gives for the key's wire type in the variable map; the
\* read returns what TypeEngine.to_python_value returns for the literal and that
\* type, and when the guess fails nothing is decoded.
C10_TypePrecedence ==
    [][ IsRead(last') /\ last'.key \in DOMAIN res.literals
                      /\ last'.key \notin DOMAIN res.native_values
          => LET t == TypeByPrecedence(registry, res, last'.key, last'.arg)
                 d == ToPythonValue(registry, created, res.literals[last'.key], t.out)
             IN /\ t.err # "none" => ~last'.decoded /\ last'.err = t.err
                /\ t.err = "none" /\ t.out # NoType
                      => /\ last'.decoded /\ last'.used = t.out
                         /\ last'.err = d.err
                         /\ last'.out = d.out ]_vars

\* C10 witness: with the hint float registered for "a" (declared INTEGER in the
\* variable map), get("a", int) decoded into int.
C10_Witness ==
    /\ last.op = "get" /\ last.key = "a" /\ last.arg = "int"
    /\ "a" \in DOMAIN res.type_hints /\ res.type_hints["a"] = "float"
    /\ "a" \in DOMAIN res.variable_map
    /\ last.decoded /\ last.used = "int"
    /\ last.out = Value("int", 1)

\* a first read with no as_type took the hint float for "a" over the guess int
C10_HintOverGuess ==
    /\ last.op = "get" /\ last.key = "a" /\ last.arg = NoAsType
    /\ "a" \in DOMAIN res.variable_map
    /\ last.decoded /\ last.used = "float"
    /\ last.out = Value("float", 1)

(***************************************************************************)
(* Properties of the conversions on restricted types.                      *)
(***************************************************************************)
Range(seq) == { seq[i] : i \in 1..Len(seq) }

ConvOps == {"to_literal_type", "to_literal", "to_python_value"}

NoOutput == {NoValue, NoLiteral, NoLiteralType}

\* q is T, a parameterized form of T or a subclass of T
FormOf(q, T) ==
    LET t == StripAnnotated(q)
    IN t = T \/ (HasOrigin(t) /\ Origin(t) = T) \/ IsInstanceOrSubclass(t, T)

\* a conversion call on a form of a type T that was handed to register_restricted_type
\* and whose lookup is answered by the registry entry of T
OnRestrictedType(reg, n, rtypes, call, T) ==
    /\ call.op \in ConvOps
    /\ T \in Range(rtypes)
    /\ FormOf(call.arg, T)
    /\ GetTransformer(reg, n, call.arg).tr = Lookup(reg, T)

\* C7 as stated: after register_restricted_type(name, T) every conversion on T, a
\* parameterized form or a subclass of T fails with RestrictedTypeError and returns
\* nothing.
C7_RestrictedTypeAlwaysRaises ==
    [][ \A T \in Range(restricted) :
           OnRestrictedType(registry, created, restricted, last', T)
           => last'.err = "RestrictedTypeError" /\ last'.out \in NoOutput ]_vars

\* the exception to_literal ends with on a type whose transformer is restricted
RestrictedToLiteralError(call) ==
    IF call.val = NoneValue /\ call.expected.k # "union"
    THEN "TypeTransformerFailedError"
    ELSE IF HasOriginAttr(call.arg) THEN "RestrictedTypeError"
    ELSE IF call.arg = "NamedTuple" THEN "TypeError"
    ELSE IF IsInstanceOrSubclass(call.val.ty, call.arg) THEN "RestrictedTypeError"
    ELSE "TypeTransformerFailedError"

\* C7 amended: while the registry entry of T is the RestrictedTypeTransformer (the
\* register_restricted_type call did not fail on a registered T and no
\* register_additional_type override replaced the entry), every conversion on T, a
\* parameterized form or a subclass dispatching to it fails and returns nothing:
\* to_literal_type and to_python_value with RestrictedTypeError, to_literal with
\* RestrictedTypeError when the value passes the None check and the type assertion
\* and with TypeTransformerFailedError (TypeError for NamedTuple) when it does not.
C7_RestrictedTransformerRaises ==
    [][ \A T \in Range(restricted) :
           /\ OnRestrictedType(registry, created, restricted, last', T)
           /\ Lookup(registry, T).kind = "restricted"
           => /\ last'.out \in NoOutput
              /\ last'.op # "to_literal" => last'.err = "RestrictedTypeError"
              /\ last'.op = "to_literal" => last'.err = RestrictedToLiteralError(last') ]_vars

\* C7 witness: to_literal of an int for the type Custom, restricted by the caller,
\* failed in the type assertion.
C7_Witness ==
    /\ last.op = "to_literal" /\ last.arg = "Custom"
    /\ "Custom" \in Range(restricted)
    /\ Lookup(registry, "Custom").kind = "restricted"
    /\ last.val = Value("int", 1)
    /\ last.err = "TypeTransformerFailedError"

(***************************************************************************)
(* Properties of the LiteralsResolver's failures.                          *)
(***************************************************************************)
\* the last call read a key that is no key of the literals
ReadOfAbsentKey(r, call) == IsRead(call) /\ call.key \notin DOMAIN r.literals

\* C11 as stated: a read of a key absent from the literals fails with KeyError.
C11_AbsentKeyRaisesKeyError ==
    [][ ReadOfAbsentKey(res, last') => last'.err = "KeyError" ]_vars

\* C11 amended: a read of a key absent from the literals fails, whatever as_type is
\* passed and whatever hints are registered: get with AttributeError, the index read
\* with ValueError; nothing is decoded and the resolver and the registry stay as
\* they were.
C11_AbsentKeyFails ==
    [][ ReadOfAbsentKey(res, last')
          => /\ last'.op = "get" => last'.err = "AttributeError"
             /\ last'.op = "getitem" => last'.err = "ValueError"
             /\ last'.out = NoValue /\ ~last'.decoded
             /\ res' = res /\ registry' = registry /\ created' = created ]_vars

\* C11 witness: get("c", float) failed although a hint is registered for "c".
C11_Witness ==
    /\ last.op = "get" /\ last.key = "c" /\ last.arg = "float"
    /\ "c" \in DOMAIN res.type_hints
    /\ "c" \notin DOMAIN res.literals
    /\ last.err = "AttributeError"

\* a first get of a key of the literals with nothing to take the type from: no
\* as_type, no hint, and no entry in the variable map or one whose type
\* guess_python_type does not reverse
NothingToInferFrom(reg, r, call) ==
    /\ call.op = "get" /\ call.arg = NoAsType
    /\ call.key \in DOMAIN r.literals
    /\ call.key \notin DOMAIN r.native_values
    /\ call.key \notin DOMAIN r.type_hints
    /\ \/ call.key \notin DOMAIN r.variable_map
       \/ GuessPythonType(reg, r.variable_map[call.key], 1).err # "none"

\* C12: get(key) with no as_type, no hint and no type to infer fails with the
\* inference error (the ValueError of get and of guess_python_type), and
\* TypeEngine.to_python_value is not called.
C12_NoTypeRaisesInferenceError ==
    [][ NothingToInferFrom(registry, res, last')
          => last'.err = "ValueError" /\ ~last'.decoded ]_vars

(***************************************************************************)
(* Properties of the union transformer.                                    *)
(***************************************************************************)
\* what the loop of UnionTransformer.to_literal gets from the variant type t: "none"
\* when the variant encodes the value, else the exception
VariantEncodingError(reg, n, val, t, expected) ==
    LET g == GetTransformer(reg, n, t)
    IN IF g.err # "none" THEN g.err
       ELSE IF TransformerToLiteral(g.tr, val, t, expected).err # "none"
            THEN TransformerToLiteral(g.tr, val, t, expected).err
            ELSE GetLiteralType(g.tr, t).err

\* the positions of the variants that encode the value
EncodingVariants(reg, n, call) ==
    { i \in 1..Len(UnionArgs(call.arg)) :
        VariantEncodingError(reg, n, call.val, UnionArgs(call.arg)[i], call.expected) = "none" }

\* the positions of the variants whose exception the loop does not catch
RaisingVariants(reg, n, call) ==
    { i \in 1..Len(UnionArgs(call.arg)) :
        VariantEncodingError(reg, n, call.val, UnionArgs(call.arg)[i], call.expected)
            \notin CaughtEncoding \cup {"none"} }

\* the positions of the variants that fail part-way: to_literal returns a literal
\* and get_literal_type raises an exception the loop catches
PartialVariants(reg, n, call) ==
    { i \in 1..Len(UnionArgs(call.arg)) :
        LET t == UnionArgs(call.arg)[i]
            g == GetTransformer(reg, n, t)
        IN /\ g.err = "none"
           /\ TransformerToLiteral(g.tr, call.val, t, call.expected).err = "none"
           /\ GetLiteralType(g.tr, t).err \in CaughtEncoding }
\* a to_literal call that reached UnionTransformer.to_literal
UnionEncoding(call) ==
    /\ call.op = "to_literal" /\ IsUnionType(call.arg)
    /\ ~(call.val = NoneValue /\ call.expected.k # "union")

\* the position of the second variant that encodes the value
SecondEncoding(reg, n, call) ==
    CHOOSE i \in EncodingVariants(reg, n, call) :
        Cardinality({ j \in EncodingVariants(reg, n, call) : j < i }) = 1

\* C13 as stated: when two or more variants encode the value, to_literal fails with
\* the ambiguity error and returns no literal.
C13_TwoMatchesAlwaysAmbiguous ==
    [][ /\ UnionEncoding(last')
        /\ Cardinality(EncodingVariants(registry, created, last')) >= 2
        => last'.err = "TypeError" /\ last'.ambiguous /\ last'.out = NoLiteral ]_vars

\* C13 amended: when two or more variants encode the value, to_literal never returns
\* a literal; it fails with the ambiguity error (TypeError) at the second variant
\* that encodes, unless a variant tried before that one raises an exception the loop
\* does not catch (RestrictedTypeError of a restricted variant), which is then the
\* error of the call.
C13_TwoMatchesNeverEncode ==
    [][ /\ UnionEncoding(last')
        /\ Cardinality(EncodingVariants(registry, created, last')) >= 2
        => LET second == SecondEncoding(registry, created, last')
               raising == { i \in RaisingVariants(registry, created, last') : i < second }
           IN /\ last'.out = NoLiteral /\ last'.err # "none"
              /\ raising = {} => last'.err = "TypeError" /\ last'.ambiguous
              /\ raising # {} => ~last'.ambiguous /\ last'.err = "RestrictedTypeError" ]_vars

\* C13 witness: to_literal(1, Union[int, Custom]) is ambiguous: the int transformer
\* and the pickle transformer of Custom both encode 1.
C13_Witness ==
    /\ last.op = "to_literal" /\ last.arg = "U_int_Custom" /\ last.val = Value("int", 1)
    /\ last.err = "TypeError" /\ last.ambiguous
    /\ last.tried = <<"int", "Pickled[Custom]">>

\* the transformer's name of the one variant that encodes the value
EncodingName(reg, n, call) ==
    LET i == CHOOSE j \in EncodingVariants(reg, n, call) : TRUE
    IN GetTransformer(reg, n, UnionArgs(call.arg)[i]).tr.name

\* dec decodes, with the same union type, the literal the call enc returned
RoundTrip(enc, dec) ==
    /\ UnionEncoding(enc) /\ enc.err = "none"
    /\ dec.op = "to_python_value" /\ dec.arg = enc.arg /\ dec.lv = enc.out

\* get_transformer finds a transformer for every variant of the union type t
VariantsResolve(reg, n, t) ==
    \A i \in 1..Len(UnionArgs(t)) : GetTransformer(reg, n, UnionArgs(t)[i]).err = "none"

\* C14 as stated: a value exactly one variant encodes is encoded with that variant's
\* transformer name as the tag, and decoding the literal returns an equal value and
\* calls the decoder of no variant whose transformer name differs from the tag.
C14_RoundTripThroughTag ==
    [][ /\ ( /\ UnionEncoding(last')
             /\ Cardinality(EncodingVariants(registry, created, last')) = 1
             => /\ last'.err = "none" /\ last'.out.k = "union"
                /\ last'.out.stored_type.tag = EncodingName(registry, created, last') )
        /\ ( RoundTrip(last, last')
             => /\ last'.err = "none" /\ last'.out = last.val
                /\ \A i \in 1..Len(last'.tried) :
                      last'.tried[i] = last'.lv.stored_type.tag ) ]_vars

\* C14 amended: the same, for a union type none of whose variants fails outside the
\* exceptions the loops catch or fails part-way.  A restricted variant fails the
\* encoding with RestrictedTypeError even when exactly one other variant encodes the
\* value, a variant get_transformer finds no transformer for (Set[int]) fails the
\* decoding with ValueError after the tagged variant has decoded the value, and a
\* variant whose to_literal returns while its get_literal_type raises leaves its
\* literal under the type of the encoding variant, which need not decode.
C14_RoundTripOfCatchingVariants ==
    [][ /\ ( /\ UnionEncoding(last')
             /\ Cardinality(EncodingVariants(registry, created, last')) = 1
             => IF RaisingVariants(registry, created, last') = {}
                THEN /\ last'.err = "none" /\ last'.out.k = "union"
                     /\ last'.out.stored_type.tag = EncodingName(registry, created, last')
                     /\ last'.tried = <<last'.out.stored_type.tag>>
                ELSE last'.err = "RestrictedTypeError" /\ last'.out = NoLiteral )
        /\ ( RoundTrip(last, last') /\ PartialVariants(registry, created, last) = {}
             => /\ \A i \in 1..Len(last'.tried) :
                      last'.tried[i] = last'.lv.stored_type.tag
                /\ IF VariantsResolve(registry, created, last'.arg)
                   THEN /\ last'.err = "none" /\ last'.out = last.val
                        /\ last'.tried = <<last'.lv.stored_type.tag>>
                   ELSE last'.err = "ValueError" /\ last'.out = NoValue ) ]_vars

\* C14 witness: a Custom value encoded as Union[int, Custom] has come back from the
\* literal tagged Pickled[Custom], only the pickle transformer's decoder called.
C14_Witness ==
    /\ last.op = "to_python_value" /\ last.arg = "U_int_Custom" /\ last.err = "none"
    /\ last.lv = UnionLiteral(BlobLiteral(PYTHON_PICKLE_FORMAT, Value("Custom", 4)),
                              AddTagToType(BlobLiteralType(PYTHON_PICKLE_FORMAT),
                                           "Pickled[Custom]"))
    /\ last.out = Value("Custom", 4)
    /\ last.tried = <<"Pickled[Custom]">>

\* a to_python_value call for a union type all of whose variants have a transformer
UnionDecoding(reg, n, call) ==
    /\ call.op = "to_python_value" /\ IsUnionType(call.arg)
    /\ VariantsResolve(reg, n, call.arg)

\* the names of the transformers of the variants of the union type t, in order
VariantNames(reg, n, t) ==
    [i \in 1..Len(UnionArgs(t)) |-> GetTransformer(reg, n, UnionArgs(t)[i]).tr.name]

\* the tag a union literal carries, NoTag when it carries none or is no union literal
CarriedTag(lv) == IF lv.k = "union" THEN lv.stored_type.tag ELSE NoTag

\* the tag names the transformer of a variant of t
TagResolves(reg, n, t, tag) ==
    \E i \in 1..Len(UnionArgs(t)) : VariantNames(reg, n, t)[i] = tag

IsPrefix(s, t) == Len(s) <= Len(t) /\ \A i \in 1..Len(s) : s[i] = t[i]

\* the call tried the decoder of every variant in order, as far as it got: an
\* ambiguity or an exception the loop does not catch ends it early
TriedAll(reg, n, call) ==
    /\ IsPrefix(call.tried, VariantNames(reg, n, call.arg))
    /\ (call.err = "none" \/ (call.err = "TypeError" /\ ~call.ambiguous))
           => call.tried = VariantNames(reg, n, call.arg)

\* C15 as stated: to_python_value tries every variant when the literal carries no
\* tag and when its tag names no variant's transformer, and calls only the decoder
\* of the variant the tag names when it names one.
C15_FallsBackWhenTagUnresolved ==
    [][ UnionDecoding(registry, created, last')
        => IF CarriedTag(last'.lv) = NoTag
              \/ ~TagResolves(registry, created, last'.arg, CarriedTag(last'.lv))
           THEN TriedAll(registry, created, last')
           ELSE \A i \in 1..Len(last'.tried) : last'.tried[i] = CarriedTag(last'.lv) ]_vars

\* C15 amended: to_python_value tries every variant only when the literal carries no
\* tag.  With a tag it calls the decoder of no variant but those the tag names and
\* the dataclass variants (which the tag test lets through whatever their name), and
\* of these only when the stored type is castable to the variant's wire type; a tag
\* that names no variant of a union without dataclass variants fails with TypeError,
\* no decoder called.
C15_NoFallbackWhenTagged ==
    [][ UnionDecoding(registry, created, last')
        => LET tag == CarriedTag(last'.lv)
               args == UnionArgs(last'.arg)
               names == VariantNames(registry, created, last'.arg)
           IN IF tag = NoTag
              THEN TriedAll(registry, created, last')
              ELSE /\ \A i \in 1..Len(last'.tried) :
                        \/ last'.tried[i] = tag
                        \/ \E j \in 1..Len(args) :
                              IsDataclass(args[j]) /\ names[j] = last'.tried[i]
                   /\ ( /\ ~TagResolves(registry, created, last'.arg, tag)
                        /\ \A j \in 1..Len(args) : ~IsDataclass(args[j])
                        => /\ last'.err = "TypeError" /\ ~last'.ambiguous
                           /\ last'.tried = <<>> /\ last'.out = NoValue ) ]_vars

\* C15 witness: a literal tagged "float" decoded as Union[int, str] has failed with
\* TypeError without any decoder called.
C15_Witness ==
    /\ last.op = "to_python_value" /\ last.arg = "U_int_str"
    /\ last.lv = UnionLiteral(PrimitiveLiteral("integer", 1),
                              AddTagToType(SimpleLiteralType("INTEGER"), "float"))
    /\ last.err = "TypeError" /\ ~last.ambiguous /\ last.tried = <<>>

(***************************************************************************)
(* Properties of _are_types_castable.                                      *)
(***************************************************************************)
\* the last call was _are_types_castable
CastCall == last.op = "are_types_castable"

\* C16: for an upstream union, _are_types_castable is true if and only if every
\* upstream variant is castable to downstream.
C16_UpstreamUnionNeedsEveryVariant ==
    CastCall /\ last.upstream.k = "union"
    => ( last.castable
         <=> \A i \in 1..Len(last.upstream.variants) :
                AreTypesCastable(last.upstream.variants[i], last.downstream) )

\* C16 witness: Union[enum, STRING] is castable to STRING, both variants being
\* castable to it.
C16_Witness ==
    /\ CastCall /\ last.castable
    /\ last.upstream = UnionLiteralType(<<EnumLiteralType(<<"red", "green">>),
                                          SimpleLiteralType("STRING")>>)
    /\ last.downstream = SimpleLiteralType("STRING")

\* some variant of the downstream union accepts the upstream type
SomeVariantAccepts(call) ==
    \E i \in 1..Len(call.downstream.variants) :
        AreTypesCastable(call.upstream, call.downstream.variants[i])

ElementsCastable(call) == AreTypesCastable(call.upstream.sub[1], call.downstream.sub[1])

\* C18 as stated: for collections, and likewise for maps, _are_types_castable is the
\* castability of the element types when both sides are collections, and false
\* whenever only one side is a collection.
C18_OneSidedContainerNeverCastable ==
    \A kind \in {"collection", "map"} :
        /\ CastCall /\ last.upstream.k = kind /\ last.downstream.k = kind
           => (last.castable <=> ElementsCastable(last))
        /\ CastCall /\ (last.upstream.k = kind) # (last.downstream.k = kind)
           => ~last.castable

\* C18 amended: the same when both sides are collections (maps); an upstream
\* collection (map) is castable to nothing else; a downstream collection (map) is
\* castable to from nothing else but an upstream union, which is castable to it
\* exactly when every one of its variants is.
C18_UpstreamUnionOfContainers ==
    \A kind \in {"collection", "map"} :
        /\ CastCall /\ last.upstream.k = kind /\ last.downstream.k = kind
           => (last.castable <=> ElementsCastable(last))
        /\ CastCall /\ last.upstream.k = kind /\ last.downstream.k # kind
           => ~last.castable
        /\ CastCall /\ last.upstream.k \notin {kind, "union"} /\ last.downstream.k = kind
           => ~last.castable
        /\ CastCall /\ last.upstream.k = "union" /\ last.downstream.k = kind
           => ( last.castable
                <=> \A i \in 1..Len(last.upstream.variants) :
                       AreTypesCastable(last.upstream.variants[i], last.downstream) )

\* C18 witness: Union[collection of enum, collection of STRING] is castable to a
\* collection of STRING.
C18_Witness ==
    /\ CastCall /\ last.castable
    /\ last.upstream = UnionLiteralType(
                           <<CollectionLiteralType(EnumLiteralType(<<"red", "green">>)),
                             CollectionLiteralType(SimpleLiteralType("STRING"))>>)
    /\ last.downstream = CollectionLiteralType(SimpleLiteralType("STRING"))

\* the attributes of two structured dataset types but their columns' types agree
DatasetsAgree(call) ==
    /\ call.upstream.format = call.downstream.format
    /\ call.upstream.schema_type = call.downstream.schema_type
    /\ call.upstream.schema_bytes = call.downstream.schema_bytes
    /\ Len(call.upstream.columns) = Len(call.downstream.columns)
    /\ \A i \in 1..Len(call.upstream.columns) :
          call.upstream.columns[i].name = call.downstream.columns[i].name

\* C19 as stated: two structured dataset types are castable only when format,
\* external schema, number of columns and, at each position, column name and
\* column type are the same; any difference makes the result false.
C19_DatasetColumnTypesEqual ==
    CastCall /\ last.upstream.k = "sds" /\ last.downstream.k = "sds"
    => ( last.castable
         <=> /\ DatasetsAgree(last)
             /\ \A i \in 1..Len(last.upstream.columns) :
                   last.upstream.columns[i].literal_type
                       = last.downstream.columns[i].literal_type )

\* C19 amended: the same with the column types compared by castability: at each
\* position the upstream column's type has to be castable to the downstream
\* column's, so an enum column is castable to a STRING column and a tagged type
\* to the untagged one.
C19_DatasetColumnTypesCastable ==
    CastCall /\ last.upstream.k = "sds" /\ last.downstream.k = "sds"
    => ( last.castable
         <=> /\ DatasetsAgree(last)
             /\ \A i \in 1..Len(last.upstream.columns) :
                   AreTypesCastable(last.upstream.columns[i].literal_type,
                                    last.downstream.columns[i].literal_type) )

\* C19 witness: a dataset with an enum column is castable to the dataset with a
\* STRING column of the same name.
C19_Witness ==
    /\ CastCall /\ last.castable
    /\ last.upstream = ParquetDataset(<<DatasetColumn("a", EnumLiteralType(<<"red", "green">>))>>)
    /\ last.downstream = ParquetDataset(<<DatasetColumn("a", SimpleLiteralType("STRING"))>>)

(***************************************************************************)
(* Properties of the dataclass transformer.                                *)
(***************************************************************************)
\* a to_python_value call that decodes a wire map into a dataclass
DataclassDecoding(call) ==
    call.op = "to_python_value" /\ IsDataclass(call.arg) /\ call.lv.k = "map"

\* the declared fields of the dataclass that the wire map lacks
MissingFields(call) ==
    { DataclassFieldNames(call.arg)[i] : i \in 1..Len(DataclassFieldNames(call.arg)) }
        \ DOMAIN call.lv.literals

\* every field the wire map holds decodes with the transformer of the field's type
PresentFieldsDecode(reg, n, call) ==
    \A i \in 1..Len(DataclassFieldNames(call.arg)) :
        LET name == DataclassFieldNames(call.arg)[i]
            type == DataclassFieldTypes(call.arg)[i]
        IN name \in DOMAIN call.lv.literals
           => TransformerToPythonValue(GetTransformer(reg, n, type).tr,
                                       call.lv.literals[name], type).err = "none"

\* C20 as stated: decoding a wire map that lacks a declared field fails, whether or
\* not the field has a default value.
C20_MissingFieldAlwaysFails ==
    [][ DataclassDecoding(last') /\ MissingFields(last') # {}
        => last'.err # "none" /\ last'.out = NoValue ]_vars

\* C20 amended: decoding a wire map that lacks a declared field fails when a field
\* it lacks has no default value (with TypeError, when the fields it holds decode);
\* when every field it lacks has a default and the fields it holds decode, the
\* decoding succeeds and the fields it lacks get their defaults.
C20_MissingFieldWithoutDefaultFails ==
    [][ DataclassDecoding(last') /\ MissingFields(last') # {}
        => IF MissingFields(last') \subseteq DataclassDefaulted(last'.arg)
           THEN PresentFieldsDecode(registry, created, last')
                => /\ last'.err = "none"
                   /\ \A name \in MissingFields(last') :
                         last'.out.fields[name] = DataclassDefault(last'.arg, name)
           ELSE /\ last'.err # "none" /\ last'.out = NoValue
                /\ PresentFieldsDecode(registry, created, last') => last'.err = "TypeError"
      ]_vars

\* C20 witness: the wire map {x: 1} has been decoded into PointD(x=1, y=0), y being
\* the field declared with a default.
C20_Witness ==
    /\ last.op = "to_python_value" /\ last.arg = "PointD" /\ last.err = "none"
    /\ last.lv = MapLiteral([x |-> PrimitiveLiteral("integer", 1)])
    /\ last.out = DataclassValue("PointD", [x |-> Value("int", 1), y |-> Value("int", 0)])

(***************************************************************************)
(* Properties of TypeEngine.dict_to_literal_map.                           *)
(***************************************************************************)
\* the last call was dict_to_literal_map
DictCall(call) == call.op = "dict_to_literal_map"

\* what the conversion of the i-th entry of the call's dict gives on the registry reg
EntryOutcome(reg, n, call, i) == EncodeEntry(reg, n, call.hints, call.d[i])

\* the position of the first entry whose conversion fails, 0 when none does
FirstFailing(reg, n, call) ==
    IF \A i \in 1..Len(call.d) : EntryOutcome(reg, n, call, i).err = "none"
    THEN 0
    ELSE CHOOSE i \in 1..Len(call.d) :
            /\ EntryOutcome(reg, n, call, i).err # "none"
            /\ \A j \in 1..(i - 1) : EntryOutcome(reg, n, call, j).err = "none"

\* C21 as stated: whatever makes the conversion of an entry fail, the call fails
\* with FlyteTypeException (no other exception escapes) and returns no literal map.
C21_EveryEntryFailureIsTyped ==
    [][ DictCall(last') /\ FirstFailing(registry, created, last') # 0
        => /\ last'.err = "FlyteTypeException" /\ last'.out = EmptyDict
           /\ last'.exc # NoException ]_vars

\* C21 amended: the call fails with FlyteTypeException, holding the type of the
\* value, the type converted to and the value (not the key), when the conversion
\* of the first failing entry raises TypeError or TypeTransformerFailedError; any
\* other exception of it (ValueError for a type without a transformer,
\* RestrictedTypeError for a restricted type) escapes as it is.  No literal map is
\* returned either way.
C21_OnlyTypeErrorsAreTyped ==
    [][ DictCall(last') /\ FirstFailing(registry, created, last') # 0
        => LET i == FirstFailing(registry, created, last')
               s == EntryOutcome(registry, created, last', i)
           IN /\ last'.out = EmptyDict
              /\ IF IsTypeError(s.err)
                 THEN /\ last'.err = "FlyteTypeException"
                      /\ last'.exc = FlyteTypeException(last'.d[i].v.ty, s.python_type,
                                                         last'.d[i].v)
                 ELSE last'.err = s.err /\ last'.exc = NoException ]_vars

\* C21 witness: a dict whose second value is a tuple has failed with
\* RestrictedTypeError.
C21_Witness ==
    /\ DictCall(last) /\ last.err = "RestrictedTypeError" /\ last.out = EmptyDict
    /\ last.d = <<[k |-> "a", v |-> Value("int", 1)], [k |-> "b", v |-> Value("tuple", 2)]>>
    /\ last.hints = EmptyDict

\* the hint for the key of the i-th entry when there is one, else the runtime type
\* of its value
HintedType(call, i) ==
    IF call.d[i].k \in DOMAIN call.hints THEN call.hints[call.d[i].k] ELSE call.d[i].v.ty

\* TypeEngine.to_literal of the i-th value with the type t, expecting the wire type of t
LiteralAs(reg, n, call, i, t) ==
    ToLiteral(reg, n, call.d[i].v, t, ToLiteralType(reg, n, t).out).out

\* C22: the literal map returned has exactly the keys of the dict, and the literal
\* of each key is the value converted with the hint for the key when there is one,
\* both as the type whose wire type is expected and as the type dispatched on, and
\* with the runtime type of the value otherwise.
C22_HintOverridesRuntimeType ==
    [][ DictCall(last') /\ last'.err = "none"
        => /\ DOMAIN last'.out = { last'.d[i].k : i \in 1..Len(last'.d) }
           /\ \A i \in 1..Len(last'.d) :
                 last'.out[last'.d[i].k]
                    = LiteralAs(registry, created, last', i, HintedType(last', i)) ]_vars

\* C22 witness: {"a": 1, "b": "2"} with the hint Custom for "a" has been converted:
\* 1 is pickled, as Custom values are, and "2" is a string literal.
C22_Witness ==
    /\ DictCall(last) /\ last.err = "none"
    /\ last.d = <<[k |-> "a", v |-> Value("int", 1)], [k |-> "b", v |-> Value("str", 2)]>>
    /\ last.hints = "a" :> "Custom"
    /\ last.out = ("a" :> BlobLiteral(PYTHON_PICKLE_FORMAT, Value("int", 1))
                   @@ "b" :> PrimitiveLiteral("string_value", 2))

(***************************************************************************)
(* TypeEngine.guess_python_type called on a registry that get_transformer  *)
(* grows with the transformers it constructs for dataclasses and for       *)
(* types it falls back to pickling.                                        *)
(***************************************************************************)
\* wire types: simple ones, blobs of the pickle format and of another, the type of
\* a dataclass with its structure tag, containers and unions of these, an enum
GuessTypes ==
    { SimpleLiteralType("INTEGER"),
      SimpleLiteralType("STRING"),
      SimpleLiteralType("STRUCT"),
      BlobLiteralType(PYTHON_PICKLE_FORMAT),
      BlobLiteralType("csv"),
      TaggedDataclassType("Point", TagFromType("Point")),
      EnumLiteralType(<<"red", "green">>),
      CollectionLiteralType(SimpleLiteralType("INTEGER")),
      CollectionLiteralType(BlobLiteralType(PYTHON_PICKLE_FORMAT)),
      MapLiteralType(SimpleLiteralType("STRING")),
      UnionLiteralType(<<SimpleLiteralType("INTEGER"), SimpleLiteralType("STRING")>>),
      UnionLiteralType(<<SimpleLiteralType("INTEGER"), BlobLiteralType(PYTHON_PICKLE_FORMAT)>>) }

\* the types looked up between the guesses
GuessLookups == {"int", "Point", "PointD", "Custom", "Multi"}

\* TypeEngine.guess_python_type(flyte_type)
GuessPythonTypeCall ==
    \E flyte_type \in GuessTypes :
        \E g \in { GuessPythonType(registry, flyte_type, 1) } :
           /\ last' = [NoCall EXCEPT !.op = "guess_python_type", !.expected = flyte_type,
                                     !.err = g.err, !.used = g.out]
           /\ UNCHANGED <<registry, restricted, created, thr, res>>

GuessGetTransformer == GetTransformerOf(GuessLookups)

GuessNext ==
    \/ GuessPythonTypeCall
    \/ GuessGetTransformer

GuessSpec == Init /\ [][GuessNext]_vars

(***************************************************************************)
(* C23.                                                                    *)
(***************************************************************************)
GuessCall == last.op = "guess_python_type"

\* what the transformer at position i answers for the wire type of the last call
AnswerOf(i) == TransformerGuess(registry, registry[i].tr, last.expected)

\* the transformer at position i claims to reverse the wire type: it returns a type
Claims(i) == AnswerOf(i).err = "none"

\* C23: guess_python_type asks the transformers in registry order and has two
\* outcomes in every registry state get_transformer leads to: the native type of
\* the first transformer that claims to reverse the wire type, or ValueError
\* (NotReversible) when none claims it.
C23_ClaimedTypeOrNotReversible ==
    GuessCall =>
        \/ /\ last.err = "none"
           /\ \E i \in 1..Len(registry) :
                 /\ Claims(i)
                 /\ \A j \in 1..(i - 1) : ~Claims(j)
                 /\ last.used = AnswerOf(i).out
        \/ /\ last.err = "ValueError"
           /\ \A i \in 1..Len(registry) : ~Claims(i)

\* a guess that left the loop with the AttributeError of a dataclass transformer
C23_AttributeErrorEscapes ==
    /\ GuessCall
    /\ last.err = "AttributeError"
    /\ \E i \in 1..Len(registry) : registry[i].tr.kind = "dataclass"

(***************************************************************************)
(* C30.                                                                    *)
(***************************************************************************)
\* the outcome of the last guess, and the outcome of the same guess on the registry
\* as _register_default_type_transformers leaves it
GuessOutcome == [err |-> last.err, out |-> last.used]

InitialOutcome == GuessPythonType(DefaultRegistry, last.expected, 1)

LazilyRegistered == Len(registry) > Len(DefaultRegistry)

\* C30 as stated: the outcome of guess_python_type for a wire type is the same
\* before and after any sequence of get_transformer calls
C30_GuessIgnoresLazyRegistrations ==
    GuessCall => GuessOutcome = InitialOutcome

\* C30: a wire type that guess_python_type reverses on the initial registry is
\* reversed to the same native type after any sequence of get_transformer calls;
\* only a wire type that is not reversible initially changes its outcome
C30_InitiallyReversedStaysReversed ==
    GuessCall =>
        /\ InitialOutcome.err = "none" => GuessOutcome = InitialOutcome
        /\ GuessOutcome # InitialOutcome =>
              /\ InitialOutcome.err = "ValueError"
              /\ LazilyRegistered

\* a guess after lazy registrations of a type reversed initially, and one whose
\* outcome the lazy registrations changed
C30_Witness ==
    /\ GuessCall
    /\ LazilyRegistered
    /\ InitialOutcome.err = "none"
    /\ GuessOutcome = InitialOutcome

C30_OutcomeChanged ==
    /\ GuessCall
    /\ GuessOutcome # InitialOutcome
    /\ GuessOutcome.err = "none"

(***************************************************************************)
(* C25, C26: the registry and _RESTRICTED_TYPES after calls that fail.     *)
(***************************************************************************)
FailedRegister(call) == call.op = "register" /\ call.err = "ValueError"

\* the types of a register call ahead of the first one found registered
AheadOfDuplicate(reg, types) ==
    LET first == CHOOSE i \in 1..Len(types) :
                    /\ InRegistry(reg, types[i])
                    /\ \A j \in 1..(i - 1) : ~InRegistry(reg, types[j])
    IN SubSeq(types, 1, first - 1)

\* C25 as stated: a register call that raises leaves the registry as it was before
\* the call; none of the earlier types of the call has been added.
C25_FailedRegisterChangesNothing ==
    [][ FailedRegister(last') => registry' = registry ]_vars

\* C25: a register call that raises leaves every entry the registry had in place,
\* and has added, mapped to the call's transformer, the types of the call ahead of
\* the first one that was already registered.
C25_FailedRegisterKeepsEarlierTypes ==
    [][ FailedRegister(last') =>
          LET added == AheadOfDuplicate(registry, RegisteredTypes(last'))
          IN registry' = registry \o
                 [i \in 1..Len(added) |-> [type |-> added[i], tr |-> last'.tr]] ]_vars

\* a register call for Base and int raised on int after Base was inserted
C25_Witness ==
    /\ FailedRegister(last)
    /\ last.more = <<"int">>
    /\ Lookup(registry, "Base") = last.tr

\* the registry maps the type to a RestrictedTypeTransformer
MapsToRestricted(reg, t) == InRegistry(reg, t) /\ Lookup(reg, t).kind = "restricted"

\* C26 as stated: in every state reachable by register, register_restricted_type,
\* register_additional_type and get_transformer calls, each type in
\* _RESTRICTED_TYPES is mapped by the registry to a RestrictedTypeTransformer.
C26_RestrictedTypesMapToRestricted ==
    \A i \in 1..Len(restricted) : MapsToRestricted(registry, restricted[i])

\* C26: a type in _RESTRICTED_TYPES is mapped to a RestrictedTypeTransformer after
\* every call but two: the register_restricted_type call that appended it and then
\* raised because the type was already registered, and a register_additional_type
\* call with override=True for it; a type whose entry is another transformer
\* stays as it is.
C26_RestrictedUnlessFailedOrOverridden ==
    [][ \A i \in 1..Len(restricted') :
          LET t == restricted'[i]
          IN \/ MapsToRestricted(registry', t)
             \/ /\ last'.op = "register_restricted_type" /\ last'.arg = t
                /\ last'.err = "ValueError"
                /\ i = Len(restricted')
                /\ ~MapsToRestricted(registry, t)
             \/ /\ last'.op = "register_additional_type" /\ last'.arg = t
                /\ last'.override
             \/ /\ i <= Len(restricted)
                /\ restricted[i] = t
                /\ ~MapsToRestricted(registry, t) ]_vars

\* Custom, which get_transformer had registered for pickling, is in
\* _RESTRICTED_TYPES after a register_restricted_type call that raised, and tuple is
\* after an override
C26_Witness ==
    /\ \E i \in 1..Len(restricted) :
          /\ restricted[i] = "Custom"
          /\ Lookup(registry, "Custom").kind = "pickle"
    /\ ~MapsToRestricted(registry, "tuple")

(***************************************************************************)
(* C27.                                                                    *)
(***************************************************************************)
SelfCast == CastCall /\ last.upstream = last.downstream

IsContainer(t) == t.k \in {"collection", "map", "sds"}

\* the type is, or holds at some depth, a union with a collection, map or
\* structured-dataset variant
RECURSIVE HoldsUnionOfContainers(_)
HoldsUnionOfContainers(t) ==
    CASE t.k = "union" ->
            \E i \in 1..Len(t.variants) :
               IsContainer(t.variants[i]) \/ HoldsUnionOfContainers(t.variants[i])
      [] t.k \in {"collection", "map"} -> HoldsUnionOfContainers(t.sub[1])
      [] t.k = "sds" ->
            \E i \in 1..Len(t.columns) : HoldsUnionOfContainers(t.columns[i].literal_type)
      [] OTHER -> FALSE

\* C27: _are_types_castable is reflexive: _are_types_castable(T, T) is true for
\* every wire type T built from simple, enum, blob, collection, map,
\* structured-dataset and union types, unions of collections or maps included.
C27_Reflexive == SelfCast => last.castable

\* what holds instead: a type is castable to itself exactly when it holds no union
\* with a collection, map or structured-dataset variant
C27_ReflexiveUnlessUnionOfContainers ==
    SelfCast => (last.castable <=> ~HoldsUnionOfContainers(last.upstream))

\* Union[collection of INTEGER, NONE] was found not castable to itself
C27_NotCastableToItself ==
    /\ SelfCast
    /\ last.upstream = UnionLiteralType(<<CollectionLiteralType(SimpleLiteralType("INTEGER")),
                                          SimpleLiteralType("NONE")>>)
    /\ ~last.castable

(***************************************************************************)
(* C28.                                                                    *)
(***************************************************************************)
\* the union literal the variant at position i of the call's union type gives when
\* both its to_literal and its get_literal_type return
LiteralOfVariant(reg, n, call, i) ==
    LET t == UnionArgs(call.arg)[i]
        g == GetTransformer(reg, n, t)
    IN UnionLiteral(TransformerToLiteral(g.tr, call.val, t, call.expected).out,
                    AddTagToType(GetLiteralType(g.tr, t).out, g.tr.name))

\* C28: the union literal UnionTransformer.to_literal returns carries an inner value
\* and a stored type produced by the same declared variant, also when a later
\* variant's to_literal succeeds and its get_literal_type fails.
C28_ValueAndTypeOfOneVariant ==
    [][ UnionEncoding(last') /\ last'.err = "none" =>
          \E i \in EncodingVariants(registry, created, last') :
             last'.out = LiteralOfVariant(registry, created, last', i) ]_vars

\* to_literal(Color.RED, Union[Custom, IntColor]) returned the string literal of the
\* enum transformer under the blob type of the pickle transformer
C28_MixedLiteral ==
    /\ last.op = "to_literal" /\ last.arg = "U_Custom_IntColor" /\ last.err = "none"
    /\ last.val = Value("Color", 1)
    /\ last.out = UnionLiteral(PrimitiveLiteral("string_value", 1),
                               AddTagToType(BlobLiteralType(PYTHON_PICKLE_FORMAT),
                                            "Pickled[Custom]"))

(***************************************************************************)
(* C29.                                                                    *)
(***************************************************************************)
\* C29: LiteralsResolver.get adds a key to the cache of native values only after it
\* decoded that key: a get that fails (absent key, no type guessed, decoding failed)
\* leaves the cache, the type hints and the literals as they were, a get that
\* succeeds adds at most its own key with the value it returns, and every cached key
\* is a key of the literals.
C29_CacheOnlyAfterDecode ==
    [][ last'.op = "get" =>
          /\ last'.err # "none" => res' = res
          /\ last'.err = "none" =>
                /\ res' = [res EXCEPT !.native_values = DictUpdate(@, last'.key :> last'.out)]
                /\ last'.decoded \/ last'.key \in DOMAIN res.native_values
          /\ DOMAIN res'.native_values \subseteq DOMAIN res'.literals ]_vars

\* a get whose decoding failed, on a resolver that has cached another key
C29_Witness ==
    /\ last.op = "get" /\ last.err # "none" /\ last.decoded
    /\ res.native_values # EmptyDict
    /\ last.key \notin DOMAIN res.native_values

(***************************************************************************)
(* The round trip of the built-in simple types on the registry that        *)
(* _register_default_type_transformers leaves.                             *)
(***************************************************************************)
SimpleTypes == {"int", "float", "bool", "str", "datetime", "timedelta", "NoneType"}

\* values of the simple types; v numbers the value within its type
SimpleValues ==
    { Value(t, v) : t \in SimpleTypes \ {"bool", "NoneType"}, v \in 0..2 }
        \cup { Value("bool", v) : v \in 0..1 } \cup { NoneValue }

\* the outcome of a round trip: step is the call that raised (1 to_literal_type,
\* 2 to_literal, 3 to_python_value), 0 when none did
RoundTripResult(err, step, lt, lv, out) ==
    [err |-> err, step |-> step, lt |-> lt, lv |-> lv, out |-> out]

\* to_python_value(to_literal(v, T, to_literal_type(T)), T)
RoundTripOf(reg, n, val, t) ==
    Once(ToLiteralType(reg, n, t), LAMBDA lt :
        IF lt.err # "none"
        THEN RoundTripResult(lt.err, 1, NoLiteralType, NoLiteral, NoValue)
        ELSE Once(ToLiteral(lt.reg, lt.n, val, t, lt.out), LAMBDA enc :
            IF enc.err # "none"
            THEN RoundTripResult(enc.err, 2, lt.out, NoLiteral, NoValue)
            ELSE Once(ToPythonValue(enc.reg, enc.n, enc.out, t), LAMBDA dec :
                IF dec.err # "none"
                THEN RoundTripResult(dec.err, 3, lt.out, enc.out, NoValue)
                ELSE RoundTripResult("none", 0, lt.out, enc.out, dec.out))))

RoundTripCall ==
    \E t \in SimpleTypes, val \in SimpleValues :
        \E r \in { RoundTripOf(registry, created, val, t) } :
           /\ last' = [NoCall EXCEPT !.op = "round_trip", !.arg = t, !.val = val,
                                     !.err = r.err, !.step = r.step, !.expected = r.lt,
                                     !.lv = r.lv, !.out = r.out]
           /\ UNCHANGED <<registry, restricted, created, thr, res>>

SimpleNext == RoundTripCall

SimpleSpec == Init /\ [][SimpleNext]_vars

(***************************************************************************)
(* C24.                                                                    *)
(***************************************************************************)
\* a round trip of a value whose runtime type is exactly the type converted with
ExactRoundTrip == last.op = "round_trip" /\ last.val.ty = last.arg

\* C24 as stated: for every built-in simple type T (int, float, bool, str, datetime,
\* timedelta, none) and every value v of exactly that type,
\* to_python_value(to_literal(v, T, to_literal_type(T)), T) equals v.
C24_SimpleTypesRoundTrip ==
    ExactRoundTrip => last.err = "none" /\ last.out = last.val

\* C24: the round trip returns an equal value for int, float, bool, str, datetime and
\* timedelta; for NoneType it fails in to_literal with TypeTransformerFailedError,
\* because None is refused for an expected type that is no union
C24_SimpleTypesButNoneRoundTrip ==
    ExactRoundTrip =>
        IF last.arg = "NoneType"
        THEN last.err = "TypeTransformerFailedError" /\ last.step = 2 /\ last.out = NoValue
        ELSE /\ last.err = "none" /\ last.out = last.val
             /\ last.lv = PrimitiveLiteral(PrimitiveField(last.expected.simple), last.val.v)

\* the str value numbered 2 came back from its string literal
C24_Witness ==
    /\ ExactRoundTrip /\ last.arg = "str" /\ last.val = Value("str", 2)
    /\ last.lv = PrimitiveLiteral("string_value", 2)
    /\ last.out = Value("str", 2)

====
